---- MODULE Spec2Model ----
(***************************************************************************)
(* The fleet orchestrator (class Admiral, src/sharding/Admiral.mjs) with   *)
(* its Queue (src/util/Queue.mjs) and the worker harnesses, as a state     *)
(* machine.  Worker processes are numbered 1, 2, ... in fork order, as     *)
(* node's cluster module numbers them; 0 stands for "no worker/no record". *)
(*                                                                         *)
(* A message from a worker is modelled by one action that is the worker    *)
(* sending it and the orchestrator's handler running on it.  Every handler *)
(* is a function from orchestrator state to orchestrator state (the record *)
(* St), so that handlers can call each other the way the code does.        *)
(***************************************************************************)
EXTENDS Integers, Sequences, FiniteSets, TLC

\* ---------------------------------------------------------------- bounds
MaxWorkers == 4        \* processes forked in one behaviour
LaunchClusters == 4    \* options.clusters of the launch scenario (SpecLaunch)
MaxClusters == 2       \* largest options.clusters of the life-cycle scenario
MaxConcurrency == 2    \* largest session_start_limit.max_concurrency
MaxServices == 1       \* largest options.services.length
NumShards == 4         \* shards the gateway recommends
MaxOps == 1            \* calls of the public API in one behaviour
MaxCrashes == 2        \* worker processes that exit by themselves
MaxReshards == 1       \* reshard() calls in one behaviour
MaxFetches == 1        \* fetch requests one worker makes in one behaviour
MaxCycles == 1         \* collectStats() calls and interval ticks in one behaviour
MaxQueue == 3          \* longest queue of the Queue taken on its own
MaxItems == 3          \* distinct items offered to the Queue taken on its own
MaxBulk == 2           \* longest list handed to bulkItems
MaxLen == 10           \* longest id list handed to chunk
MaxCount == 5          \* largest clusterCount handed to chunkConcurrencyGroups
MaxGroupSize == 2      \* largest maxConcurrency handed to chunkConcurrencyGroups
MaxRequests == 2       \* requests issued through one CentralRequestHandler
MaxShutdowns == 2      \* shutdown messages one service harness receives
MaxFirst == 1          \* largest first id of a list handed to chunk
MaxChunks == 4         \* largest cluster count handed to chunk
maxRestarts == 1       \* options.maxRestarts of the scenarios (-1 would disable the limit)

\* ------------------------------------------------------- program constants
startServicesTogether == FALSE
shutdownTogether == FALSE    \* options.startServicesTogether ?? false

Workers == 1..MaxWorkers
MaxCid == IF LaunchClusters > MaxClusters THEN LaunchClusters ELSE MaxClusters
CIDs == 0..(MaxCid - 1)
SIDs == 0..(MaxServices - 1)
IDs == CIDs \cup SIDs
NoTag == "none"
Undef == -1

VARIABLES
  queue,              \* Queue.queue: sequence of items [w, type, op]
  override,           \* Queue.override
  launchingManager,   \* workerID -> "none" | "launched" | "waiting"
  softKills,          \* workerID -> soft-kill entry (NoSK when absent)
  clusters,           \* clusterID -> record object (0 when absent)
  services,           \* service   -> record object (0 when absent)
  objWorker,          \* record object -> its workerID field
  launchingWorkers,   \* sequence of workerIDs, in insertion order
  connectedClusterGroups, \* group -> times its members have connected
  clustersSequentialFailedRestarts,
  servicesSequentialFailedRestarts,
  resharding,
  clusterCount,
  maxConcurrency,
  servicesToCreate,   \* sequence of the services to create
  nextId,             \* id the next forked worker gets
  workers,            \* master.workers: ids of the processes not yet exited
  wtype, wident,      \* a process's role and its clusterID / service
  wphase,             \* harness: "none","boot","idle","connected","loaded"
  shutdownsPending,   \* shutdown messages a worker has not acknowledged yet
  connectSent, loadCodeSent, kills,   \* per worker: connect / loadCode / kill() count
  killTimers,         \* per worker: kill-timers not yet fired
  execTimers,         \* pending setTimeout(() => queue.execute(), clusterTimeout)
  launchPending,      \* launch() calls whose asynchronous part has not run
  reshards,           \* sequence of reshard() closures [old, i, listening] with
                      \* the workers registered (ws), the next worker id (first)
                      \* and whether the fleet was steady, all at the call
  softKillDone,       \* per worker: runs of its shutdown continuation
  timerKills,         \* per worker: kills performed by a kill-timer
  acked,              \* per worker: shutdown acknowledgments processed for its own entry
  completeEmitted,    \* reshardingComplete events emitted
  fetches,            \* requester -> checked count of its FetchEntry (Undef when absent)
  asks,               \* cluster worker -> requester -> fetch requests not yet answered
  returned,           \* requester -> the "return" values sent to it, in order
  fetchTimers,        \* requester -> fetch timeouts not yet fired
  holders,            \* clusterIDs whose cluster holds the value that is fetched
  requests,           \* requester -> fetch requests it has made
  late,               \* requester -> replies processed while it had no FetchEntry
  noValues,           \* requester -> workers whose "no value" its FetchEntry counted
  collectingStats, pauseStats, statsStarted,
  prelimStats,        \* the snapshot under construction (defined = FALSE before the first)
  statsWorkersCounted,
  statsAsks,          \* per worker: collectStats requests not yet answered
  published,          \* the snapshots emitted with "stats", as they were when emitted
  repliesInCycle,     \* collectStats replies received since the cycle started
  cyclesLeft,
  listener,           \* the subscriber of the queue's "execute" signal: the
                      \* orchestrator's handler, or a recorder
  emitted,            \* recorder: the (item, prevItem) of the signals of the last call
  lastCall,           \* recorder: the last call made to the Queue
  chunked,            \* the last call of chunk: its arguments and its result r
  grouped,            \* the last call of chunkConcurrencyGroups and its map
  central,            \* one worker's CentralRequestHandler and its requests
  harness,            \* one service worker process: the Service object
  ending,             \* totalShutdown: its counters, and whether the master exited
  opsLeft, crashesLeft

vars == <<queue, override, launchingManager, softKills, clusters, services,
          objWorker, launchingWorkers, connectedClusterGroups,
          clustersSequentialFailedRestarts, servicesSequentialFailedRestarts,
          resharding, clusterCount, maxConcurrency, servicesToCreate, nextId,
          workers, wtype, wident, wphase, shutdownsPending, connectSent,
          loadCodeSent, kills, killTimers, execTimers, launchPending, reshards,
          softKillDone, timerKills, acked, completeEmitted, fetches, asks,
          returned, fetchTimers, holders, requests, late, noValues, collectingStats,
          pauseStats, statsStarted, prelimStats, statsWorkersCounted, statsAsks,
          published, repliesInCycle, cyclesLeft, listener, emitted, lastCall,
          chunked, grouped, central, harness, ending, opsLeft, crashesLeft>>

St ==
  [queue |-> queue, override |-> override, launchingManager |-> launchingManager,
   softKills |-> softKills, clusters |-> clusters, services |-> services,
   objWorker |-> objWorker, launchingWorkers |-> launchingWorkers,
   connectedClusterGroups |-> connectedClusterGroups,
   clustersSequentialFailedRestarts |-> clustersSequentialFailedRestarts,
   servicesSequentialFailedRestarts |-> servicesSequentialFailedRestarts,
   resharding |-> resharding, clusterCount |-> clusterCount,
   maxConcurrency |-> maxConcurrency,
   servicesToCreate |-> servicesToCreate,
   nextId |-> nextId, workers |-> workers, wtype |-> wtype, wident |-> wident,
   wphase |-> wphase, shutdownsPending |-> shutdownsPending,
   connectSent |-> connectSent, loadCodeSent |-> loadCodeSent, kills |-> kills,
   killTimers |-> killTimers, execTimers |-> execTimers,
   launchPending |-> launchPending, reshards |-> reshards,
   softKillDone |-> softKillDone, timerKills |-> timerKills, acked |-> acked,
   completeEmitted |-> completeEmitted, fetches |-> fetches, asks |-> asks,
   returned |-> returned, fetchTimers |-> fetchTimers, holders |-> holders,
   requests |-> requests, late |-> late, noValues |-> noValues, collectingStats |-> collectingStats,
   pauseStats |-> pauseStats, statsStarted |-> statsStarted,
   prelimStats |-> prelimStats, statsWorkersCounted |-> statsWorkersCounted,
   statsAsks |-> statsAsks, published |-> published,
   repliesInCycle |-> repliesInCycle, cyclesLeft |-> cyclesLeft,
   listener |-> listener, emitted |-> emitted, lastCall |-> lastCall,
   chunked |-> chunked,
   grouped |-> grouped,
   central |-> central,
   harness |-> harness,
   ending |-> ending,
   opsLeft |-> opsLeft,
   crashesLeft |-> crashesLeft]

Call(op, tag, first, items) ==
  [op |-> op, tag |-> tag, first |-> first, items |-> items]

\* The next state is the record t; a step that would fork more than
\* MaxWorkers processes is outside the bounds.
SetVars(t) ==
  /\ t.nextId <= MaxWorkers + 1
  /\ ~ending.exited                 \* process.exit(0): no handler runs again
  /\ queue' = t.queue
  /\ override' = t.override
  /\ launchingManager' = t.launchingManager
  /\ softKills' = t.softKills
  /\ clusters' = t.clusters
  /\ services' = t.services
  /\ objWorker' = t.objWorker
  /\ launchingWorkers' = t.launchingWorkers
  /\ connectedClusterGroups' = t.connectedClusterGroups
  /\ clustersSequentialFailedRestarts' = t.clustersSequentialFailedRestarts
  /\ servicesSequentialFailedRestarts' = t.servicesSequentialFailedRestarts
  /\ resharding' = t.resharding
  /\ clusterCount' = t.clusterCount
  /\ maxConcurrency' = t.maxConcurrency
  /\ servicesToCreate' = t.servicesToCreate
  /\ nextId' = t.nextId
  /\ workers' = t.workers
  /\ wtype' = t.wtype
  /\ wident' = t.wident
  /\ wphase' = t.wphase
  /\ shutdownsPending' = t.shutdownsPending
  /\ connectSent' = t.connectSent
  /\ loadCodeSent' = t.loadCodeSent
  /\ kills' = t.kills
  /\ killTimers' = t.killTimers
  /\ execTimers' = t.execTimers
  /\ launchPending' = t.launchPending
  /\ reshards' = t.reshards
  /\ softKillDone' = t.softKillDone
  /\ timerKills' = t.timerKills
  /\ acked' = t.acked
  /\ completeEmitted' = t.completeEmitted
  /\ fetches' = t.fetches
  /\ asks' = t.asks
  /\ returned' = t.returned
  /\ fetchTimers' = t.fetchTimers
  /\ holders' = t.holders
  /\ requests' = t.requests
  /\ late' = t.late
  /\ noValues' = t.noValues
  /\ collectingStats' = t.collectingStats
  /\ pauseStats' = t.pauseStats
  /\ statsStarted' = t.statsStarted
  /\ prelimStats' = t.prelimStats
  /\ statsWorkersCounted' = t.statsWorkersCounted
  /\ statsAsks' = t.statsAsks
  /\ published' = t.published
  /\ repliesInCycle' = t.repliesInCycle
  /\ cyclesLeft' = t.cyclesLeft
  /\ listener' = t.listener
  /\ emitted' = t.emitted
  /\ lastCall' = t.lastCall
  /\ chunked' = t.chunked
  /\ grouped' = t.grouped
  /\ central' = t.central
  /\ harness' = t.harness
  /\ ending' = t.ending
  /\ opsLeft' = t.opsLeft
  /\ crashesLeft' = t.crashesLeft

\* ------------------------------------------------------------- small helpers
Item(w, type, op) == [w |-> w, type |-> type, op |-> op]

NoSK == [kind |-> "none", type |-> "n", id |-> 0, custom |-> FALSE,
         cb |-> "none", obj |-> 0, other |-> 0, rs |-> 0]

\* Map.delete that deletes nothing
KeepAll(seq, w) == seq

RECURSIVE Without(_, _)
Without(seq, w) ==
  IF seq = <<>> THEN <<>>
  ELSE IF Head(seq) = w THEN Without(Tail(seq), w)
  ELSE <<Head(seq)>> \o Without(Tail(seq), w)

InSeq(seq, w) == \E i \in 1..Len(seq) : seq[i] = w

\* Map.set(workerID, ...) on launchingWorkers: a new key goes last, an
\* existing key keeps its place.
LaunchingSet(s, w) ==
  IF InSeq(s.launchingWorkers, w) THEN s
  ELSE [s EXCEPT !.launchingWorkers = Append(@, w)]

\* master.fork(): the new process gets the next id and boots its harness.
Fork(s, type, id) ==
  LET w == s.nextId IN
  IF w > MaxWorkers THEN [s EXCEPT !.nextId = @ + 1]
  ELSE [s EXCEPT !.nextId = @ + 1, !.workers = @ \cup {w}, !.wtype[w] = type,
                 !.wident[w] = id, !.wphase[w] = "boot"]

\* worker.send(...) reaches a process only while it is in master.workers.
SendConnect(s, w) ==
  IF w \in s.workers THEN [s EXCEPT !.connectSent[w] = @ + 1] ELSE s
SendLoadCode(s, w) ==
  IF w \in s.workers THEN [s EXCEPT !.loadCodeSent[w] = @ + 1] ELSE s
SendShutdown(s, w) ==
  IF w \in s.workers THEN [s EXCEPT !.shutdownsPending[w] = @ + 1] ELSE s
\* worker.kill()
Kill(s, w) ==
  IF w \in s.workers THEN [s EXCEPT !.kills[w] = @ + 1] ELSE s

\* clusters.find(c => c.workerID === w) / services.find(...): the record
\* naming worker w.  A record of identity x only ever names workers forked
\* with identity x, so the search looks at w's own identity.
ClusterOf(s, w) ==
  IF w \in Workers /\ s.wtype[w] = "cluster" /\ s.clusters[s.wident[w]] # 0
     /\ s.objWorker[s.clusters[s.wident[w]]] = w
  THEN s.clusters[s.wident[w]] ELSE 0
ServiceOf(s, w) ==
  IF w \in Workers /\ s.wtype[w] = "service" /\ s.services[s.wident[w]] # 0
     /\ s.objWorker[s.services[s.wident[w]]] = w
  THEN s.services[s.wident[w]] ELSE 0

\* ------------------------------------------------------ chunk and grouping
CeilDiv(a, b) == (a + b - 1) \div b

\* an even split that stops after its first group
EvenFirstOnly(shards, i, size) ==
  IF Len(shards) = 0 THEN <<>> ELSE <<SubSeq(shards, 1, size)>>

RECURSIVE ChunkEven(_, _, _)
ChunkEven(shards, i, size) ==
  IF i < Len(shards)
  THEN <<SubSeq(shards, i + 1, i + size)>> \o ChunkEven(shards, i + size, size)
  ELSE <<>>

\* an uneven split that puts the remainder at the end
TailHeavy(shards, i, clustersLeft) ==
  IF Len(shards) < 2 THEN <<shards>>
  ELSE <<SubSeq(shards, 1, 1), SubSeq(shards, 2, Len(shards))>>

RECURSIVE ChunkUneven(_, _, _)
ChunkUneven(shards, i, clustersLeft) ==
  IF i < Len(shards)
  THEN LET size == CeilDiv(Len(shards) - i, clustersLeft) IN
       <<SubSeq(shards, i + 1, i + size)>>
         \o ChunkUneven(shards, i + size, clustersLeft - 1)
  ELSE <<>>

\* a chunk that never splits
OneGroup(shards, nclusters) == <<shards>>

chunk(shards, nclusters) ==
  IF nclusters < 2 THEN <<shards>>
  ELSE IF Len(shards) % nclusters = 0
       THEN ChunkEven(shards, 0, Len(shards) \div nclusters)
       ELSE ChunkUneven(shards, 0, nclusters)

RECURSIVE GroupLoop(_, _, _, _)
GroupLoop(i, currentGroup, target, M) ==
  LET g == IF i - currentGroup * M = M THEN currentGroup + 1 ELSE currentGroup
  IN IF i = target THEN g ELSE GroupLoop(i + 1, g, target, M)

\* a grouping that puts every cluster in group 0
SingleGroup(count, M) == [i \in 0..(count - 1) |-> 0]

chunkConcurrencyGroups(count, M) ==
  [i \in 0..(count - 1) |-> GroupLoop(0, 0, i, M)]

\* Map.get: undefined for a key the map does not hold
MapGet(map, key) == IF key \in DOMAIN map THEN map[key] ELSE Undef

\* message.clusterID / message.serviceName of a queue item: a shutdown
\* item's message carries neither
ItemIdent(s, it) ==
  IF it.op = "connect" /\ it.w \in Workers THEN s.wident[it.w] ELSE Undef

\* Object.entries(clusterToGroupMap).filter(...).length: a Map has no own
\* enumerable properties, so the entries are empty whatever the map holds
groupConnectedMax(clusterToGroupMap, clusterGroupID) == 0

\* ------------------------------------------------------------------ stats
\* message.stats.ram of worker w's reply and process.memoryUsage().rss of the
\* orchestrator: every process reports its own amount
RamOf(w) == 2 ^ (w - 1)
masterRam == 2 ^ MaxWorkers

RECURSIVE SumRam(_)
SumRam(ws) == IF ws = <<>> THEN 0 ELSE RamOf(Head(ws)) + SumRam(Tail(ws))

\* the object executeStats assigns to prelimStats; reports lists the workers
\* of the entries pushed to prelimStats.clusters and prelimStats.services
EmptyStats ==
  [defined |-> TRUE, clustersRam |-> 0, servicesRam |-> 0, masterRam |-> 0,
   totalRam |-> 0, reports |-> <<>>]

RegistrySize(s) ==
  Cardinality({c \in CIDs : s.clusters[c] # 0})
    + Cardinality({v \in SIDs : s.services[v] # 0})

\* executeStats()
executeStats(s) ==
  IF s.collectingStats \/ s.pauseStats THEN s
  ELSE LET asked == {s.objWorker[s.clusters[c]] : c \in {x \in CIDs : s.clusters[x] # 0}}
                      \cup {s.objWorker[s.services[v]] : v \in {x \in SIDs : s.services[x] # 0}}
       IN [s EXCEPT !.collectingStats = TRUE,
                    !.prelimStats = EmptyStats,
                    !.statsWorkersCounted = 0,
                    !.repliesInCycle = 0,
                    !.statsAsks = [w \in Workers |->
                                     IF w \in asked /\ w \in s.workers THEN @[w] + 1 ELSE @[w]]]

\* startStats(), statsInterval not "disable"
startStats(s) ==
  executeStats([s EXCEPT !.collectingStats = FALSE, !.pauseStats = FALSE,
                         !.statsStarted = TRUE])

\* case "connected", lines 397-405: after "ready"
StatsAfterReady(s) ==
  IF s.pauseStats
  THEN IF ~s.resharding
       THEN IF ~s.statsStarted THEN startStats(s) ELSE s
       ELSE [s EXCEPT !.pauseStats = FALSE]
  ELSE s

\* case "collectStats": the reply of worker w
HandleCollectStats(s, w) ==
  LET cluster == ClusterOf(s, w)
      service == ServiceOf(s, w)
      s1 == IF s.prelimStats.defined /\ ~s.pauseStats
            THEN LET s2 ==
                       IF cluster # 0
                       THEN [s EXCEPT !.prelimStats.clustersRam = @ + RamOf(w),
                                      !.prelimStats.reports = Append(@, w),
                                      !.statsWorkersCounted =
                                         IF @ # Undef THEN @ + 1 ELSE @]
                       ELSE IF service # 0
                       THEN [s EXCEPT !.prelimStats.servicesRam = @ + RamOf(w),
                                      !.prelimStats.reports = Append(@, w),
                                      !.statsWorkersCounted =
                                         IF @ # Undef THEN @ + 1 ELSE @]
                       ELSE s
                 IN [s2 EXCEPT !.prelimStats.totalRam = @ + RamOf(w)]
            ELSE s
  IN IF s1.statsWorkersCounted = RegistrySize(s1)
     THEN LET s3 == [s1 EXCEPT !.prelimStats.masterRam = masterRam,
                               !.prelimStats.totalRam = @ + masterRam,
                               !.collectingStats = FALSE]
          IN [s3 EXCEPT !.published =
                Append(@, [stats |-> s3.prelimStats,
                           replies |-> s3.repliesInCycle,
                           size |-> RegistrySize(s3)])]
     ELSE s1

\* ------------------------------------------------------------------ Queue
RECURSIVE QExecute(_, _, _)

\* concurrency() of the "execute" handler
Concurrency(s, it) ==
  IF it.type = "service" /\ startServicesTogether /\ Len(s.queue) >= 2
  THEN IF s.queue[2].type = "service"
          /\ ItemIdent(s, it) # ItemIdent(s, s.queue[2])
       THEN QExecute(s, FALSE, NoTag) ELSE s
  ELSE IF it.type = "cluster" /\ Len(s.queue) >= 2
  THEN IF s.queue[2].type = "cluster"
       THEN LET map == chunkConcurrencyGroups(s.clusterCount, s.maxConcurrency)
            IN IF MapGet(map, ItemIdent(s, it))
                    = MapGet(map, ItemIdent(s, s.queue[2]))
               THEN QExecute(s, FALSE, NoTag) ELSE s
       ELSE s
  ELSE s

\* queue.on("execute", item): the handler for the head of the queue
OnExecute(s) ==
  LET it == Head(s.queue)
      w == it.w
  IN IF w \notin s.workers THEN s
     ELSE IF it.op = "connect"
     THEN IF s.launchingManager[w] # "none"
          THEN Concurrency([SendConnect(s, w) EXCEPT !.launchingManager[w] = "none"], it)
          ELSE [s EXCEPT !.launchingManager[w] = "waiting"]
     ELSE [SendShutdown(s, w) EXCEPT !.killTimers[w] = @ + 1]

\* undefined, where an item is expected
NoItem == Item(0, "n", "none")

\* this.emit("execute", item, prevItem): the subscriber runs
EmitExecute(s, item, prevItem) ==
  IF s.listener = "admiral" THEN OnExecute(s)
  ELSE [s EXCEPT !.emitted = Append(@, [item |-> item, prevItem |-> prevItem])]

\* an execute that advances without signalling
AdvanceSilently(s, first, tag) ==
  IF first \/ s.queue = <<>> THEN s ELSE [s EXCEPT !.queue = Tail(@)]

\* Queue.execute(first, override)
QExecute(s, first, tag) ==
  IF s.override # NoTag /\ tag # s.override THEN s
  ELSE LET prevItem == IF first \/ s.queue = <<>> THEN NoItem ELSE Head(s.queue)
           s1 == IF first \/ s.queue = <<>> THEN s
                 ELSE [s EXCEPT !.queue = Tail(@)]
       IN IF s1.queue = <<>> THEN s1 ELSE EmitExecute(s1, Head(s1.queue), prevItem)

\* an item that only appends
AppendOnly(s, it, tag) == [s EXCEPT !.queue = Append(@, it)]

\* Queue.item(item, override)
QItem(s, it, tag) ==
  IF s.override # NoTag /\ tag # s.override THEN s
  ELSE LET s1 == [s EXCEPT !.queue = Append(@, it)]
       IN IF Len(s1.queue) = 1 THEN QExecute(s1, TRUE, tag) ELSE s1

\* a bulkItems that does not look at the override tag
UngatedBulk(s, items, tag) ==
  LET s1 == [s EXCEPT !.queue = @ \o items]
  IN IF s.queue = <<>> THEN QExecute(s1, TRUE, tag) ELSE s1

\* Queue.bulkItems(items, override)
QBulk(s, items, tag) ==
  IF s.override # NoTag /\ tag # s.override THEN s
  ELSE LET s1 == [s EXCEPT !.queue = @ \o items]
       IN IF s.queue = <<>> THEN QExecute(s1, TRUE, tag) ELSE s1

\* ------------------------------------------------- soft kill and restart
ShutEntry(type, id, custom, cbr) ==
  [kind |-> "shut", type |-> type, id |-> id, custom |-> custom,
   cb |-> cbr.cb, obj |-> cbr.obj, other |-> cbr.other, rs |-> cbr.rs]

NoCallback == [cb |-> "none", obj |-> 0, other |-> 0, rs |-> 0]

\* shutdownWorker(worker, soft, callback, customMaps): the new state and the
\* queue item it returns.  customMaps is only ever {clusters: oldClusters}.
shutdownWorker(s, w, soft, cbr, custom, oldClusters) ==
  LET cid == s.wident[w]
      clusterObj == IF custom
                    THEN IF s.wtype[w] = "cluster" /\ oldClusters[cid] # 0
                            /\ s.objWorker[oldClusters[cid]] = w
                         THEN oldClusters[cid] ELSE 0
                    ELSE ClusterOf(s, w)
      launching == ~custom /\ InSeq(s.launchingWorkers, w)
      isCluster == clusterObj # 0 \/ (launching /\ s.wtype[w] = "cluster")
      isService == ~isCluster
                   /\ (ServiceOf(s, w) # 0 \/ (launching /\ s.wtype[w] = "service"))
  IN IF isCluster
     THEN IF soft
          THEN [s |-> [s EXCEPT !.softKills[w] = ShutEntry("cluster", cid, custom, cbr)],
                item |-> Item(w, "cluster", "shutdown")]
          ELSE [s |-> LET s1 == Kill(s, w)
                      IN IF custom THEN s1 ELSE [s1 EXCEPT !.clusters[cid] = 0],
                item |-> Item(w, "cluster", "shutdown")]
     ELSE IF isService
     THEN IF soft
          THEN [s |-> [s EXCEPT !.softKills[w] = ShutEntry("service", cid, custom, cbr)],
                item |-> Item(w, "service", "shutdown")]
          ELSE [s |-> LET s1 == Kill(s, w)
                      IN IF custom THEN s1 ELSE [s1 EXCEPT !.services[cid] = 0],
                item |-> Item(w, "service", "shutdown")]
     ELSE [s |-> s, item |-> Item(w, "n", "shutdown")]

\* totalShutdown has not been called
NotEnding ==
  [called |-> FALSE, hard |-> FALSE, total |-> 0, done |-> 0, exited |-> FALSE,
   ws |-> {}, steady |-> FALSE]

\* doneFn of totalShutdown: the last continuation clears the override and
\* ends the process
doneFn(s) ==
  LET done == s.ending.done + 1
  IN IF done = s.ending.total
     THEN [s EXCEPT !.ending.done = done, !.ending.exited = TRUE,
                    !.override = NoTag]
     ELSE [s EXCEPT !.ending.done = done]

\* The callbacks handed to shutdownWorker, run at the end of a continuation.
\*   "total":   totalShutdown's doneFn (lines 1545-1555)
\*   "restart": restartWorker's soft branch (cluster: lines 2059-2067,
\*              service: 2131-2137)
\*   "reshard": reshard's ready listener (lines 1639-1673)
Callback(s, e) ==
  IF e.cb = "restart"
  THEN IF e.type = "cluster"
       THEN [SendLoadCode(s, e.other) EXCEPT !.clusters[e.id] = e.obj,
                                             !.objWorker[e.obj] = e.other,
                                             !.pauseStats = FALSE]
       ELSE [s EXCEPT !.services[e.id] = e.obj, !.objWorker[e.obj] = e.other]
  ELSE IF e.cb = "reshard"
  THEN LET old == s.reshards[e.rs].old
           newObj == s.clusters[e.id]
           s1 == IF newObj # 0 THEN SendLoadCode(s, s.objWorker[newObj]) ELSE s
           i == s.reshards[e.rs].i + 1
           s2 == [s1 EXCEPT !.reshards[e.rs].i = i]
           size == Cardinality({c \in CIDs : old[c] # 0})
           fresh == {s2.objWorker[s2.clusters[c]] :
                       c \in {c \in CIDs : s2.clusters[c] # 0 /\ old[c] = 0}}
       IN IF i = size
          THEN [s2 EXCEPT !.loadCodeSent =
                            [w \in Workers |->
                               IF w \in fresh /\ w \in s2.workers THEN @[w] + 1 ELSE @[w]],
                          !.completeEmitted = @ + 1]
          ELSE s2
  ELSE IF e.cb = "total"
  THEN doneFn(s)
  ELSE s

\* softKills.get(w).fn(failed)
RunFn(s, w, failed) ==
  LET e == s.softKills[w] IN
  IF e.kind = "shut"
  THEN LET s1 == IF e.custom THEN s
                 ELSE IF e.type = "cluster"
                      THEN [s EXCEPT !.clusters[e.id] = 0,
                                     !.launchingWorkers = Without(@, w)]
                      ELSE [s EXCEPT !.services[e.id] = 0,
                                     !.launchingWorkers = Without(@, w)]
           s2 == [s1 EXCEPT !.softKills[w] = NoSK, !.softKillDone[w] = @ + 1]
           \* the cluster continuation kills unless told the safe path
           \* failed; the service continuation takes no argument
           s3 == IF e.type = "cluster" /\ failed THEN s2 ELSE Kill(s2, w)
           s4 == QExecute(s3, FALSE, "shutdownWorker")
       IN Callback(s4, e)
  ELSE IF e.kind = "restart"
  THEN LET s1 == [s EXCEPT !.softKills[w] = NoSK]
           r == shutdownWorker(s1, e.other, TRUE,
                               [cb |-> "restart", obj |-> e.obj, other |-> w, rs |-> 0],
                               FALSE, [c \in CIDs |-> 0])
       IN QItem(r.s, r.item, NoTag)
  ELSE s

\* restartWorker(worker, manual, soft): the new state and the connect item
\* of the replacement (has = FALSE when it returns undefined)
restartWorker(s, w, manual, soft) ==
  LET c == ClusterOf(s, w)
      v == ServiceOf(s, w)
      id == s.wident[w]
      newWorker == s.nextId
  IN IF c # 0 \/ v # 0
     THEN LET type == IF c # 0 THEN "cluster" ELSE "service"
              obj == IF c # 0 THEN c ELSE v
              s1 == LaunchingSet(Fork(s, type, id), newWorker)
              s2 == IF newWorker \notin Workers THEN s1   \* outside the bounds
                    ELSE IF soft
                    THEN [s1 EXCEPT !.softKills[newWorker] =
                            [kind |-> "restart", type |-> type, id |-> id,
                             custom |-> FALSE, cb |-> "none", obj |-> obj,
                             other |-> w, rs |-> 0],
                          !.pauseStats = IF type = "cluster" THEN TRUE ELSE @]
                    ELSE LET s3 == IF manual THEN Kill(s1, w) ELSE s1
                         IN [s3 EXCEPT !.objWorker[obj] = newWorker]
          IN [s |-> s2, item |-> Item(newWorker, type, "connect"), has |-> TRUE]
     ELSE [s |-> s, item |-> Item(0, "n", "connect"), has |-> FALSE]

\* ----------------------------------------------- reshard's "ready" listener
RECURSIVE KillOld(_, _, _, _)
\* oldClusters.forEach(...) of the listener, from clusterID c upwards
KillOld(s, n, c, items) ==
  IF c > MaxCid - 1 THEN [s |-> s, items |-> items]
  ELSE LET old == s.reshards[n].old
           obj == old[c]
           oldWorker == IF obj # 0 THEN s.objWorker[obj] ELSE 0
       IN IF obj # 0 /\ oldWorker \in s.workers
          THEN LET r == shutdownWorker(s, oldWorker, TRUE,
                          [cb |-> "reshard", obj |-> obj, other |-> 0, rs |-> n],
                          TRUE, old)
               IN KillOld(r.s, n, c + 1, Append(items, r.item))
          ELSE KillOld(s, n, c + 1, items)

ReshardReady(s, n) ==
  LET s1 == [s EXCEPT !.resharding = FALSE, !.reshards[n].listening = FALSE]
      r == KillOld(s1, n, 0, <<>>)
  IN QBulk(r.s, r.items, NoTag)

\* this.emit("ready"): runs the pending once("ready") listener, if any
EmitReady(s) ==
  LET ls == {n \in 1..Len(s.reshards) : s.reshards[n].listening}
  IN IF ls = {} THEN s ELSE ReshardReady(s, CHOOSE n \in ls : TRUE)

\* ----------------------------------------------------------------- launch
RECURSIVE ForkServices(_, _, _)
\* the loop of startService over servicesToStart, from index i
ForkServices(s, i, items) ==
  IF i > Len(s.servicesToCreate) THEN [s |-> s, items |-> items]
  ELSE LET w == s.nextId
           s1 == LaunchingSet(Fork(s, "service", s.servicesToCreate[i]), w)
       IN ForkServices(s1, i + 1, Append(items, Item(w, "service", "connect")))

RECURSIVE ForkClusters(_, _)
\* the first loop of startCluster, from clusterID i
ForkClusters(s, i) ==
  IF i >= s.clusterCount THEN s
  ELSE ForkClusters(LaunchingSet(Fork(s, "cluster", i), s.nextId), i + 1)

\* launchingWorkers.find(w => w.cluster?.clusterID === ID): the first entry,
\* in insertion order, of a cluster with that ID
LaunchingCluster(s, ID) ==
  LET is == {i \in 1..Len(s.launchingWorkers) :
               LET w == s.launchingWorkers[i]
               IN w \in Workers /\ s.wtype[w] = "cluster" /\ s.wident[w] = ID}
  IN IF is = {} THEN 0
     ELSE s.launchingWorkers[CHOOSE i \in is : \A j \in is : i <= j]

startCluster(s) ==
  LET s1 == ForkClusters(s, 0)
      items == [i \in 1..s1.clusterCount |->
                  Item(LaunchingCluster(s1, i - 1), "cluster", "connect")]
  IN QBulk(s1, items, NoTag)

\* startService(servicesToCreate) and, on the next tick, startCluster
startService(s) ==
  LET r == ForkServices(s, 1, <<>>)
  IN startCluster(QBulk(r.s, r.items, NoTag))

\* The asynchronous part of launch(): calculateShards, chunk, then start.
LaunchStart(s) ==
  LET shardsByID == [i \in 1..NumShards |-> i - 1]
      chunks == chunk(shardsByID, s.clusterCount)
      s1 == [s EXCEPT !.clusterCount = Len(chunks), !.launchPending = @ - 1]
  IN IF s1.servicesToCreate # <<>> /\ ~s1.resharding
     THEN startService(s1) ELSE startCluster(s1)

\* --------------------------------------------- handlers of worker messages
\* case "launched"
HandleLaunched(s, w) ==
  IF s.launchingManager[w] = "waiting"
  THEN LET s1 == Concurrency(SendConnect(s, w), Item(w, s.wtype[w], "connect"))
       IN [s1 EXCEPT !.launchingManager[w] = "none"]
  ELSE IF s.launchingManager[w] = "launched"
  THEN [s EXCEPT !.launchingManager[w] = "none"]
  ELSE [s EXCEPT !.launchingManager[w] = "launched"]

\* case "connected", lines 360-406: advancing the queue
ConnectedAdvance(s, w) ==
  IF Len(s.queue) >= 2
  THEN IF s.queue[2].type = "cluster" /\ s.queue[1].type = "cluster"
       THEN IF s.wtype[w] # "cluster" THEN s   \* launchedWorker.cluster is undefined: TypeError
            ELSE LET map == chunkConcurrencyGroups(s.clusterCount, s.maxConcurrency)
                     clusterGroupID == MapGet(map, s.wident[w])
                 IN IF clusterGroupID = Undef THEN s
                    ELSE LET total == s.connectedClusterGroups[clusterGroupID] + 1
                             s1 == [s EXCEPT !.connectedClusterGroups[clusterGroupID] = total]
                         IN IF total >= groupConnectedMax(map, clusterGroupID)
                            THEN [s1 EXCEPT !.execTimers = @ + 1] ELSE s1
       ELSE IF startServicesTogether /\ s.queue[2].type = "cluster"
               /\ s.queue[1].type = "service"
       THEN IF Cardinality({v \in SIDs : s.services[v] # 0}) >= Len(s.servicesToCreate)
            THEN QExecute(s, FALSE, NoTag) ELSE s
       ELSE QExecute(s, FALSE, NoTag)
  ELSE LET s1 == EmitReady(QExecute(s, FALSE, NoTag))
       IN StatsAfterReady([s1 EXCEPT !.connectedClusterGroups = [g \in CIDs |-> 0]])

\* case "connected", lines 332-334: every pending FetchEntry is sent to the
\* cluster that has just connected
SendFetches(s, w) ==
  IF w \in s.workers
  THEN [s EXCEPT !.asks[w] = [k \in Workers |->
                                IF s.fetches[k] # Undef THEN @[k] + 1 ELSE @[k]]]
  ELSE s

\* case "connected"
HandleConnected(s, w) ==
  IF ~InSeq(s.launchingWorkers, w) THEN s
  ELSE LET s1 == IF s.softKills[w].kind # "none" THEN s
                 ELSE IF s.wtype[w] = "cluster"
                      THEN [s EXCEPT !.clusters[s.wident[w]] = w, !.objWorker[w] = w]
                      ELSE [s EXCEPT !.services[s.wident[w]] = w, !.objWorker[w] = w]
           s1f == IF s.wtype[w] = "cluster" THEN SendFetches(s1, w) ELSE s1
           s2 == [s1f EXCEPT !.launchingWorkers = Without(@, w)]
           s3 == IF ~s2.resharding /\ s2.softKills[w].kind = "none"
                 THEN SendLoadCode(s2, w) ELSE s2
           s4 == IF s3.softKills[w].kind # "none" THEN RunFn(s3, w, FALSE) ELSE s3
       IN ConnectedAdvance(s4, w)

\* case "codeLoaded"
HandleCodeLoaded(s, w) ==
  IF ClusterOf(s, w) # 0
  THEN [s EXCEPT !.clustersSequentialFailedRestarts[s.wident[w]] = 0]
  ELSE IF ServiceOf(s, w) # 0
  THEN [s EXCEPT !.servicesSequentialFailedRestarts[s.wident[w]] = 0]
  ELSE s

\* case "shutdown": the acknowledgment is looked up under the worker of the
\* queue's head item; with an empty queue queue[0].workerID throws
HandleShutdown(s, w) ==
  IF s.queue = <<>> THEN s
  ELSE LET head == s.queue[1].w
       IN IF head \in Workers /\ s.softKills[head].kind # "none"
          THEN LET s1 == IF head = w THEN [s EXCEPT !.acked[w] = @ + 1] ELSE s
               IN RunFn(s1, head, FALSE)
          ELSE s

\* an exit handler that knows no restart limit
NoLimit(s, w) == FALSE

\* master.on("exit"), lines 563-590: true when the restart limit stops the
\* handler before restartWorker
LimitReached(s, w) ==
  /\ maxRestarts # -1
  /\ \/ ClusterOf(s, w) # 0
        /\ s.clustersSequentialFailedRestarts[s.wident[w]] >= maxRestarts
     \/ ClusterOf(s, w) = 0 /\ ServiceOf(s, w) # 0
        /\ s.servicesSequentialFailedRestarts[s.wident[w]] >= maxRestarts

\* an exit handler that keeps no account of failures
NoAccount(s, w) == s

\* the counter of w's identity after the accounting of an exit
CountFailure(s, w) ==
  IF maxRestarts = -1 THEN s
  ELSE IF ClusterOf(s, w) # 0
  THEN [s EXCEPT !.clustersSequentialFailedRestarts[s.wident[w]] =
                    IF @ >= maxRestarts THEN 0 ELSE @ + 1]
  ELSE IF ServiceOf(s, w) # 0
  THEN [s EXCEPT !.servicesSequentialFailedRestarts[s.wident[w]] =
                    IF @ >= maxRestarts THEN 0 ELSE @ + 1]
  ELSE s

\* master.on("exit"); the worker has left master.workers
HandleExit(s, w) ==
  IF s.softKills[w].kind # "none"
  THEN LET s1 == QExecute(s, FALSE, NoTag)
       IN IF s1.softKills[w].kind # "none" THEN RunFn(s1, w, TRUE) ELSE s1
  ELSE IF LimitReached(s, w)
  THEN LET s1 == CountFailure(s, w)
       IN IF s1.queue = <<>> THEN s1          \* queue[0].workerID throws
          ELSE IF s1.queue[1].w = w THEN QExecute(s1, FALSE, NoTag) ELSE s1
  ELSE LET s1 == CountFailure(s, w)
           r == restartWorker(s1, w, FALSE, FALSE)
       IN IF r.has THEN QItem(r.s, r.item, NoTag) ELSE r.s

\* the kill-timer of the "execute" handler's shutdown branch
HandleKillTimer(s, w) ==
  LET s0 == [s EXCEPT !.killTimers[w] = @ - 1]
  IN IF s0.queue # <<>> /\ s0.queue[1].w = w /\ w \in s0.workers
     THEN LET s1 == [Kill(s0, w) EXCEPT !.timerKills[w] = @ + 1]
          IN IF s1.softKills[w].kind # "none" THEN RunFn(s1, w, TRUE) ELSE s1
     ELSE s0

\* ------------------------------------------------------------------ fetch
\* The correlation key {id, UUID} of a fetch is modelled by its requester:
\* every fetch of a behaviour asks for the same id.
RECURSIVE FetchBroadcast(_, _, _)
\* the loop of fetchInfo: for (let i = 0; this.clusters.get(i); i++)
FetchBroadcast(s, k, i) ==
  IF i \notin CIDs \/ s.clusters[i] = 0 THEN s
  ELSE LET w == s.objWorker[s.clusters[i]]
           s1 == IF w \in s.workers THEN [s EXCEPT !.asks[w][k] = @ + 1] ELSE s
       IN FetchBroadcast(s1, k, i + 1)

\* fetchInfo(op, id, requestWorker)
fetchInfo(s, k) ==
  LET s1 == [s EXCEPT !.fetches[k] = 0, !.fetchTimers[k] = @ + 1,
                      !.noValues[k] = {}]
  IN FetchBroadcast(s1, k, 0)

\* sendReturn(value) of ipcReturn, for a requester that is a worker
sendReturn(s, k, value) ==
  IF k \in s.workers THEN [s EXCEPT !.returned[k] = Append(@, value)] ELSE s

\* ipcReturn(message) for the reply to a fetch of requester k
ipcReturn(s, k, noValue) ==
  LET fetch == s.fetches[k] IN
  IF noValue
  THEN IF fetch # Undef
       THEN LET clustersLaunching ==
                  Cardinality({i \in 1..Len(s.launchingWorkers) :
                                 s.wtype[s.launchingWorkers[i]] = "cluster"})
                size == Cardinality({c \in CIDs : s.clusters[c] # 0})
            IN IF fetch + 1 = size + clustersLaunching
               THEN [sendReturn(s, k, "null") EXCEPT !.fetches[k] = Undef]
               ELSE [s EXCEPT !.fetches[k] = fetch + 1]
       ELSE s
  ELSE sendReturn([s EXCEPT !.fetches[k] = Undef], k, "value")

\* a timeout that answers without looking for the FetchEntry
BlindTimeout(s, k) ==
  sendReturn([s EXCEPT !.fetchTimers[k] = @ - 1, !.fetches[k] = Undef], k, "null")

\* the setTimeout callback of fetchInfo
HandleFetchTimeout(s, k) ==
  LET s0 == [s EXCEPT !.fetchTimers[k] = @ - 1]
  IN IF s0.fetches[k] # Undef
     THEN sendReturn([s0 EXCEPT !.fetches[k] = Undef], k, "null")
     ELSE s0

\* Nothing is under way: the queue is empty, nothing is launching or being
\* soft-killed, and every process has loaded its code.
Steady(s) ==
  /\ s.queue = <<>> /\ s.launchingWorkers = <<>> /\ s.execTimers = 0
  /\ s.launchPending = 0
  /\ \A w \in Workers : s.softKills[w].kind = "none" /\ s.killTimers[w] = 0
  /\ \A w \in s.workers : s.wphase[w] = "loaded" /\ s.kills[w] = 0

\* ---------------------------------------------------------- totalShutdown
\* The workerIDs totalShutdown visits: the records of this.clusters, those of
\* this.services, the keys of this.launchingWorkers.
RECURSIVE RegistryWorkers(_, _, _)
RegistryWorkers(s, registry, i) ==
  IF i \notin DOMAIN registry THEN <<>>
  ELSE (IF registry[i] # 0 THEN <<s.objWorker[registry[i]]>> ELSE <<>>)
         \o RegistryWorkers(s, registry, i + 1)

Visited(s) ==
  RegistryWorkers(s, s.clusters, 0) \o RegistryWorkers(s, s.services, 0)
    \o s.launchingWorkers

\* the process.nextTick callbacks, in order: r.s is the state, r.items the
\* queueItems, r.completed completedVal
RECURSIVE NextTicks(_, _, _)
NextTicks(r, list, i) ==
  IF i > Len(list) THEN r
  ELSE IF list[i] \in r.s.workers
  THEN LET k == shutdownWorker(r.s, list[i], TRUE,
                               [cb |-> "total", obj |-> 0, other |-> 0, rs |-> 0],
                               FALSE, [c \in CIDs |-> 0])
       IN NextTicks([s |-> k.s, items |-> Append(r.items, k.item),
                     completed |-> r.completed + 1], list, i + 1)
  ELSE NextTicks(r, list, i + 1)

RECURSIVE QueueEach(_, _, _)
\* queueItems.forEach(qi => this.queue.item(qi, "shutdownWorker"))
QueueEach(s, items, i) ==
  IF i > Len(items) THEN s
  ELSE QueueEach(QItem(s, items[i], "shutdownWorker"), items, i + 1)

\* totalShutdown(hard), with the nextTick callbacks it schedules
totalShutdown(s, hard) ==
  IF hard
  THEN [s EXCEPT !.ending = [@ EXCEPT !.called = TRUE, !.hard = TRUE,
                                       !.exited = TRUE, !.steady = Steady(s)]]
  ELSE LET list == Visited(s)
           s0 == [s EXCEPT !.override = "shutdownWorker", !.queue = <<>>,
                           !.ending = [@ EXCEPT !.called = TRUE, !.hard = FALSE,
                                                 !.total = Len(list), !.done = 0,
                                                 !.steady = Steady(s),
                                                 !.ws = {list[i] : i \in DOMAIN list}]]
           r == NextTicks([s |-> s0, items |-> <<>>, completed |-> 0], list, 1)
       IN IF r.completed > 0 /\ r.completed >= Len(list)
          THEN IF shutdownTogether THEN QBulk(r.s, r.items, "shutdownWorker")
               ELSE QueueEach(r.s, r.items, 1)
          ELSE r.s

\* ------------------------------------------------------------ public API
\* reshard(options) with options.clusters = n
HandleReshard(s, n) ==
  IF ~s.resharding
  THEN [s EXCEPT !.reshards = Append(@, [old |-> s.clusters, i |-> 0, listening |-> TRUE,
                                         ws |-> {s.objWorker[s.clusters[c]] :
                                                   c \in {x \in CIDs : s.clusters[x] # 0}},
                                         first |-> s.nextId,
                                         steady |-> Steady(s)]),
                 !.resharding = TRUE,
                 !.clusterCount = n,
                 !.launchingWorkers = <<>>,     \* launch(): launchingWorkers.clear()
                 !.pauseStats = TRUE,           \* launch(): this.pauseStats = true
                 !.launchPending = @ + 1]
  ELSE s                                         \* "Already resharding!"

\* restartCluster(clusterID, hard)
HandleRestartCluster(s, c, hard) ==
  LET obj == s.clusters[c]
      w == IF obj # 0 THEN s.objWorker[obj] ELSE 0
  IN IF obj # 0 /\ w \in s.workers
     THEN LET r == restartWorker(s, w, TRUE, ~hard)
          IN IF r.has THEN QItem(r.s, r.item, NoTag) ELSE r.s
     ELSE s

\* restartService(serviceName, hard)
HandleRestartService(s, v, hard) ==
  LET obj == s.services[v]
      w == IF obj # 0 THEN s.objWorker[obj] ELSE 0
  IN IF obj # 0 /\ w \in s.workers
     THEN LET r == restartWorker(s, w, TRUE, ~hard)
          IN IF r.has THEN QItem(r.s, r.item, NoTag) ELSE r.s
     ELSE s

\* shutdownCluster(clusterID, hard)
HandleShutdownCluster(s, c, hard) ==
  LET obj == s.clusters[c]
      w == IF obj # 0 THEN s.objWorker[obj] ELSE 0
  IN IF obj # 0 /\ w \in s.workers
     THEN LET r == shutdownWorker(s, w, ~hard, NoCallback, FALSE, [x \in CIDs |-> 0])
          IN QItem(r.s, r.item, NoTag)
     ELSE s

\* servicesToCreate.splice(servicesToCreate.findIndex(s => s.name === v), 1):
\* findIndex gives -1 for a name that is not listed, and splice(-1, 1)
\* removes the last element
SpliceService(seq, v) ==
  LET is == {i \in 1..Len(seq) : seq[i] = v}
      at == IF is = {} THEN Len(seq) ELSE CHOOSE i \in is : \A j \in is : i <= j
  IN [i \in 1..(IF seq = <<>> THEN 0 ELSE Len(seq) - 1) |->
        IF i < at THEN seq[i] ELSE seq[i + 1]]

\* shutdownService(serviceName, hard)
HandleShutdownService(s, v, hard) ==
  LET obj == s.services[v]
      w == IF obj # 0 THEN s.objWorker[obj] ELSE 0
  IN IF obj = 0 THEN s
     ELSE LET s1 == IF w \in s.workers
                    THEN LET r == shutdownWorker(s, w, ~hard, NoCallback, FALSE,
                                                 [x \in CIDs |-> 0])
                         IN QItem(r.s, r.item, NoTag)
                    ELSE s
          IN [s1 EXCEPT !.servicesToCreate = SpliceService(@, v)]

\* ------------------------------------------------- CentralRequestHandler
UUIDs == 1..MaxRequests
Throws == "SyntaxError"

\* What the value of a reply holds: an ordinary object, a bigint, undefined,
\* or a string that itself starts with the bigint marker.
ApiValues == {"object", "bigint", "undefined", "text BIGINT::7", "text BIGINT::x"}

\* stringifyJSON, by the leaf it writes for the value
stringifyJSON(v) ==
  CASE v = "bigint" -> "BIGINT::7"
    [] v = "undefined" -> "UNDEFINED::"
    [] v = "text BIGINT::7" -> "BIGINT::7"
    [] v = "text BIGINT::x" -> "BIGINT::x"
    [] OTHER -> v

\* parseJSON, by what its reviver makes of the leaf: BigInt() of text that is
\* no integer throws
parseJSON(json) ==
  CASE json = "BIGINT::7" -> "bigint"
    [] json = "BIGINT::x" -> Throws
    [] json = "UNDEFINED::" -> "undefined"
    [] OTHER -> json

\* new CentralRequestHandler: no request yet
NoRequests ==
  [issued |-> {}, requests |-> {}, timers |-> {}, atMaster |-> {},
   inflight |-> {}, outcomes |-> [u \in UUIDs |-> <<>>]]

\* request(): the message to the master, the timer, the entry of the map
request(c, u) ==
  [c EXCEPT !.issued = @ \cup {u}, !.atMaster = @ \cup {u},
            !.timers = @ \cup {u}, !.requests = @ \cup {u}]

\* Admiral.centralApiRequest: the handler's promise settles and reply() sends
\* centralApiResponse
centralApiRequest(c, u, resolved, value) ==
  [c EXCEPT !.atMaster = @ \ {u},
            !.inflight = @ \cup {[id |-> u, resolved |-> resolved,
                                  valueSerialized |-> stringifyJSON(value)]}]

\* the callback request() stores in the map
callback(c, u, resolved) ==
  [c EXCEPT !.requests = @ \ {u}, !.timers = @ \ {u},
            !.outcomes[u] = Append(@, IF resolved THEN "resolve" ELSE "reject")]

\* the "message" listener of the constructor, for op centralApiResponse
OnCentralApiResponse(c, m) ==
  LET c0 == [c EXCEPT !.inflight = @ \ {m}]
  IN IF m.id \in c0.requests
     THEN IF parseJSON(m.valueSerialized) = Throws THEN c0
          ELSE callback(c0, m.id, m.resolved)
     ELSE c0

\* the timer of request() fires
OnRequestTimeout(c, u) ==
  [c EXCEPT !.timers = @ \ {u}, !.requests = @ \ {u},
            !.outcomes[u] = Append(@, "timeout")]

\* -------------------------------------------------------- service harness
\* new Service(input): the process has sent "launched" and waits for messages
Booted(path, hook, timeout) ==
  [alive |-> TRUE, path |-> path, hook |-> hook, timeout |-> timeout,
   connects |-> 0, importing |-> FALSE, app |-> FALSE, ready |-> "pending",
   timer |-> FALSE, hooks |-> 0, shutdownsLeft |-> MaxShutdowns,
   sent |-> <<"launched">>, last |-> "launched"]

\* process.exit(1)
ExitProcess(h, why) ==
  [h EXCEPT !.alive = FALSE, !.timer = FALSE, !.importing = FALSE, !.last = why]

\* a harness that reports connected as soon as the module is instantiated
InstantiateAndReport(h, ok) ==
  [h EXCEPT !.importing = FALSE, !.app = TRUE, !.last = "instantiated",
            !.sent = @ \o <<"connected", "codeLoaded">>]

\* loadCode from new App(...) on: the instance or the exit, then the timer
Instantiate(h, ok) ==
  IF ok
  THEN [h EXCEPT !.importing = FALSE, !.app = TRUE,
                 !.timer = (h.timeout # 0), !.last = "instantiated"]
  ELSE ExitProcess(h, "instantiation failed")

\* case "connect": loadCode up to the instance, or up to await import(path)
OnConnect(h, ok) ==
  LET h0 == [h EXCEPT !.connects = @ + 1, !.last = "connect"]
  IN IF h0.app THEN h0
     ELSE IF h0.path THEN [h0 EXCEPT !.importing = TRUE]
     ELSE Instantiate(h0, ok)

\* readyPromise.then: the module has called serviceReady
OnReady(h) ==
  [h EXCEPT !.ready = "resolved", !.timer = FALSE, !.last = "ready",
            !.sent = @ \o <<"connected", "codeLoaded">>]

\* readyPromise.catch: the module has called serviceStartingError
OnStartingError(h) == ExitProcess([h EXCEPT !.ready = "rejected"], "rejected")

\* a harness that acknowledges every shutdown at once
AckAtOnce(h) ==
  [h EXCEPT !.shutdownsLeft = @ - 1, !.last = "shutdown",
            !.sent = Append(@, "shutdown")]

\* case "shutdown"
OnShutdown(h) ==
  LET h0 == [h EXCEPT !.shutdownsLeft = @ - 1, !.last = "shutdown"]
  IN IF h0.app /\ h0.hook THEN [h0 EXCEPT !.hooks = @ + 1]
     ELSE [h0 EXCEPT !.sent = Append(@, "shutdown")]

\* the callback handed to app.shutdown is invoked
OnHookDone(h) ==
  [h EXCEPT !.hooks = @ - 1, !.last = "done", !.sent = Append(@, "shutdown")]

\* ---------------------------------------------------------------- actions
\* the asynchronous part of a launch() call runs
LaunchAsync ==
  /\ launchPending > 0
  /\ SetVars(LaunchStart(St))

\* What the service harness (class Service) may send next:
\* "launched" once it has booted, "connected" and then "codeLoaded" once it
\* has been told to connect and its module is ready, the "shutdown"
\* acknowledgment for each "shutdown" message it was sent.
ServiceMay(w, op) ==
  CASE op = "launched"   -> wphase[w] = "boot"
    [] op = "connected"  -> wphase[w] = "idle" /\ connectSent[w] > 0
    [] op = "codeLoaded" -> wphase[w] = "connected"
    [] op = "shutdown"   -> wphase[w] # "boot" /\ shutdownsPending[w] > 0

\* What the cluster harness may send next: as the service harness, except
\* that it loads its code, and reports "codeLoaded", when told "loadCode".
ClusterMay(w, op) ==
  CASE op = "launched"   -> wphase[w] = "boot"
    [] op = "connected"  -> wphase[w] = "idle" /\ connectSent[w] > 0
    [] op = "codeLoaded" -> wphase[w] = "connected" /\ loadCodeSent[w] > 0
    [] op = "shutdown"   -> wphase[w] # "boot" /\ shutdownsPending[w] > 0

HarnessMay(w, op) ==
  IF wtype[w] = "service" THEN ServiceMay(w, op) ELSE ClusterMay(w, op)

\* a booted harness reports "launched"
Launched(w) ==
  /\ w \in workers /\ kills[w] = 0 /\ HarnessMay(w, "launched")
  /\ SetVars(HandleLaunched([St EXCEPT !.wphase[w] = "idle"], w))

\* a harness that was sent "connect" reports "connected"
Connected(w) ==
  /\ w \in workers /\ kills[w] = 0 /\ HarnessMay(w, "connected")
  /\ SetVars(HandleConnected([St EXCEPT !.wphase[w] = "connected"], w))

\* a harness reports "codeLoaded"
CodeLoaded(w) ==
  /\ w \in workers /\ kills[w] = 0 /\ HarnessMay(w, "codeLoaded")
  /\ SetVars(HandleCodeLoaded([St EXCEPT !.wphase[w] = "loaded"], w))

\* a harness acknowledges a "shutdown" message; the acknowledgment may
\* still arrive after the process was killed, until its exit is reported
ShutdownAck(w) ==
  /\ w \in workers /\ HarnessMay(w, "shutdown")
  /\ SetVars(HandleShutdown([St EXCEPT !.shutdownsPending[w] = @ - 1], w))

\* a kill-timer fires
KillTimer(w) ==
  /\ killTimers[w] > 0
  /\ SetVars(HandleKillTimer(St, w))

\* a setTimeout(() => queue.execute(), clusterTimeout) fires
ExecTimer ==
  /\ execTimers > 0
  /\ SetVars(QExecute([St EXCEPT !.execTimers = @ - 1], FALSE, NoTag))

\* a process exits by itself (a crash, or the harness giving up)
Crash(w) ==
  /\ w \in workers /\ kills[w] = 0 /\ crashesLeft > 0
  /\ SetVars(HandleExit([St EXCEPT !.workers = @ \ {w}, !.crashesLeft = @ - 1], w))

\* a killed process exits
ExitKilled(w) ==
  /\ w \in workers /\ kills[w] > 0
  /\ SetVars(HandleExit([St EXCEPT !.workers = @ \ {w}], w))

RestartCluster(c, hard) ==
  /\ opsLeft > 0 /\ clusters[c] # 0 /\ objWorker[clusters[c]] \in workers
  /\ SetVars(HandleRestartCluster([St EXCEPT !.opsLeft = @ - 1], c, hard))

RestartService(v, hard) ==
  /\ opsLeft > 0 /\ services[v] # 0 /\ objWorker[services[v]] \in workers
  /\ SetVars(HandleRestartService([St EXCEPT !.opsLeft = @ - 1], v, hard))

ShutdownCluster(c, hard) ==
  /\ opsLeft > 0 /\ clusters[c] # 0 /\ objWorker[clusters[c]] \in workers
  /\ SetVars(HandleShutdownCluster([St EXCEPT !.opsLeft = @ - 1], c, hard))

ShutdownService(v, hard) ==
  /\ opsLeft > 0 /\ services[v] # 0
  /\ SetVars(HandleShutdownService([St EXCEPT !.opsLeft = @ - 1], v, hard))

Reshard(n) ==
  /\ opsLeft > 0 /\ Len(reshards) < MaxReshards
  /\ SetVars(HandleReshard([St EXCEPT !.opsLeft = @ - 1], n))

\* What a cluster answers to a fetch: the value when its client holds it,
\* "no value" otherwise.
ClusterAnswersNoValue(w) == wident[w] \notin holders

\* a worker whose code is running asks for a fetch (case "fetchGuild", ...)
FetchRequest(k) ==
  /\ k \in workers /\ kills[k] = 0 /\ wphase[k] = "loaded"
  /\ requests[k] < MaxFetches /\ fetches[k] = Undef /\ fetchTimers[k] = 0
  /\ SetVars(fetchInfo([St EXCEPT !.requests[k] = @ + 1], k))

\* a worker whose fetch was answered asks for the same id again while the
\* timeout of its earlier fetch is still pending
FetchAgain(k) ==
  /\ k \in workers /\ kills[k] = 0 /\ wphase[k] = "loaded"
  /\ requests[k] >= 1 /\ requests[k] <= MaxFetches
  /\ fetches[k] = Undef /\ fetchTimers[k] = 1
  /\ SetVars(fetchInfo([St EXCEPT !.requests[k] = @ + 1], k))

\* a cluster answers a fetch request and the orchestrator handles its "return"
FetchAnswer(w, k) ==
  /\ w \in workers /\ kills[w] = 0 /\ asks[w][k] > 0
  /\ SetVars(ipcReturn([St EXCEPT !.asks[w][k] = @ - 1,
                                   !.late[k] = IF fetches[k] = Undef THEN @ + 1 ELSE @,
                                   !.noValues[k] =
                                     IF fetches[k] # Undef /\ ClusterAnswersNoValue(w)
                                     THEN @ \cup {w} ELSE @],
                        k, ClusterAnswersNoValue(w)))

\* the timeout of a fetch fires
FetchTimeout(k) ==
  /\ fetchTimers[k] > 0
  /\ SetVars(HandleFetchTimeout(St, k))

\* collectStats() is called, or the stats interval ticks
CollectStats ==
  /\ cyclesLeft > 0
  /\ SetVars(executeStats([St EXCEPT !.cyclesLeft = @ - 1]))

\* a worker answers a collectStats request; the answer may still arrive
\* after the process was killed, until its exit is reported
StatsReply(w) ==
  /\ w \in workers /\ statsAsks[w] > 0
  /\ SetVars(HandleCollectStats([St EXCEPT !.statsAsks[w] = @ - 1,
                                            !.repliesInCycle = @ + 1], w))

\* The Queue taken on its own: the calls of its methods, on items that
\* stand for no process.
Items == {Item(MaxWorkers + i, "cluster", "connect") : i \in 1..MaxItems}
Tags == {NoTag, "shutdownWorker", "other"}
Bulks == UNION {[1..n -> Items] : n \in 0..MaxBulk}

\* queue.item(item, override)
QueueItem(it, tag) ==
  /\ Len(queue) < MaxQueue
  /\ SetVars(QItem([St EXCEPT !.emitted = <<>>,
                               !.lastCall = Call("item", tag, FALSE, <<it>>)],
                    it, tag))

\* queue.bulkItems(items, override)
QueueBulk(items, tag) ==
  /\ Len(queue) + Len(items) <= MaxQueue
  /\ SetVars(QBulk([St EXCEPT !.emitted = <<>>,
                               !.lastCall = Call("bulkItems", tag, FALSE, items)],
                    items, tag))

\* queue.execute(first, override)
QueueExecute(first, tag) ==
  /\ Len(queue) <= MaxQueue
  /\ SetVars(QExecute([St EXCEPT !.emitted = <<>>,
                                  !.lastCall = Call("execute", tag, first, <<>>)],
                       first, tag))

\* queue.override = tag (set by totalShutdown, cleared when it is done)
QueueOverride(tag) ==
  /\ tag \in {NoTag, "shutdownWorker"} /\ tag # override
  /\ SetVars([St EXCEPT !.emitted = <<>>, !.override = tag,
                         !.lastCall = Call("override", tag, FALSE, <<>>)])

\* the list launch() builds: the ids from first upwards
ShardsByID(first, len) == [i \in 1..len |-> first + i - 1]

\* this.chunk(shardsByID, clusters) is called
Chunk(first, len, n) ==
  LET shards == ShardsByID(first, len)
  IN /\ len >= 0
     /\ SetVars([St EXCEPT !.chunked = [called |-> TRUE, shards |-> shards,
                                     clusters |-> n, r |-> chunk(shards, n)]])

\* this.chunkConcurrencyGroups() is called with the given clusterCount and
\* maxConcurrency
Groups(count, M) ==
  /\ M >= 1
  /\ SetVars([St EXCEPT !.grouped =
                [called |-> TRUE, count |-> count, M |-> M,
                 map |-> chunkConcurrencyGroups(count, M)]])

\* totalShutdown(hard) is called
TotalShutdown(hard) ==
  /\ opsLeft > 0 /\ ~ending.called
  /\ SetVars(totalShutdown([St EXCEPT !.opsLeft = @ - 1], hard))

\* a worker calls CentralRequestHandler.request: a fresh UUID
CentralRequest ==
  /\ Cardinality(central.issued) < MaxRequests
  /\ SetVars([St EXCEPT !.central = request(@, Cardinality(central.issued) + 1)])

\* the master's request handler settles and the reply is sent
CentralReply(u, resolved, value) ==
  /\ u \in central.atMaster
  /\ SetVars([St EXCEPT !.central = centralApiRequest(@, u, resolved, value)])

\* a centralApiResponse message reaches the worker
CentralResponse(m) ==
  /\ m \in central.inflight
  /\ SetVars([St EXCEPT !.central = OnCentralApiResponse(@, m)])

CentralTimeout(u) ==
  /\ u \in central.timers
  /\ SetVars([St EXCEPT !.central = OnRequestTimeout(@, u)])

\* the service process receives "connect"
HarnessConnect(ok) ==
  /\ harness.alive /\ harness.connects = 0
  /\ SetVars([St EXCEPT !.harness = OnConnect(@, ok)])

\* await import(path) returns or throws
HarnessImported(ok) ==
  /\ harness.alive /\ harness.importing
  /\ SetVars([St EXCEPT !.harness = Instantiate(@, ok)])

\* the module reports that it is ready
HarnessReady ==
  /\ harness.alive /\ harness.app /\ harness.ready = "pending"
  /\ SetVars([St EXCEPT !.harness = OnReady(@)])

\* the module reports an error while starting
HarnessStartingError ==
  /\ harness.alive /\ harness.app /\ harness.ready = "pending"
  /\ SetVars([St EXCEPT !.harness = OnStartingError(@)])

\* the startup timer fires
HarnessTimeout ==
  /\ harness.alive /\ harness.timer
  /\ SetVars([St EXCEPT !.harness = ExitProcess(@, "timeout")])

\* the service process receives "shutdown"
HarnessShutdown ==
  /\ harness.alive /\ harness.shutdownsLeft > 0
  /\ SetVars([St EXCEPT !.harness = OnShutdown(@)])

\* the module's shutdown hook calls done()
HarnessHookDone ==
  /\ harness.alive /\ harness.hooks > 0
  /\ SetVars([St EXCEPT !.harness = OnHookDone(@)])

\* ------------------------------------------------------------------- Init
\* The state the constructor leaves: empty registries and queue, and one
\* launch() whose asynchronous part is pending.
Constructed(nclusters, M, nservices, ops, crashes) ==
  /\ queue = <<>>
  /\ override = NoTag
  /\ launchingManager = [w \in Workers |-> "none"]
  /\ softKills = [w \in Workers |-> NoSK]
  /\ clusters = [c \in CIDs |-> 0]
  /\ services = [v \in SIDs |-> 0]
  /\ objWorker = [w \in Workers |-> 0]
  /\ launchingWorkers = <<>>
  /\ connectedClusterGroups = [g \in CIDs |-> 0]
  /\ clustersSequentialFailedRestarts = [c \in CIDs |-> 0]
  /\ servicesSequentialFailedRestarts = [v \in SIDs |-> 0]
  /\ resharding = FALSE
  /\ clusterCount = nclusters
  /\ maxConcurrency = M
  /\ servicesToCreate = [i \in 1..nservices |-> i - 1]
  /\ nextId = 1
  /\ workers = {}
  /\ wtype = [w \in Workers |-> "none"]
  /\ wident = [w \in Workers |-> 0]
  /\ wphase = [w \in Workers |-> "none"]
  /\ shutdownsPending = [w \in Workers |-> 0]
  /\ connectSent = [w \in Workers |-> 0]
  /\ loadCodeSent = [w \in Workers |-> 0]
  /\ kills = [w \in Workers |-> 0]
  /\ killTimers = [w \in Workers |-> 0]
  /\ execTimers = 0
  /\ launchPending = 1
  /\ reshards = <<>>
  /\ softKillDone = [w \in Workers |-> 0]
  /\ timerKills = [w \in Workers |-> 0]
  /\ acked = [w \in Workers |-> 0]
  /\ completeEmitted = 0
  /\ fetches = [k \in Workers |-> Undef]
  /\ asks = [c \in Workers |-> [k \in Workers |-> 0]]
  /\ returned = [k \in Workers |-> <<>>]
  /\ fetchTimers = [k \in Workers |-> 0]
  /\ requests = [k \in Workers |-> 0]
  /\ late = [k \in Workers |-> 0]
  /\ noValues = [k \in Workers |-> {}]
  /\ collectingStats = FALSE
  /\ pauseStats = TRUE                  \* launch(): this.pauseStats = true
  /\ statsStarted = FALSE
  /\ prelimStats = [EmptyStats EXCEPT !.defined = FALSE]
  /\ statsWorkersCounted = Undef
  /\ statsAsks = [w \in Workers |-> 0]
  /\ published = <<>>
  /\ repliesInCycle = 0
  /\ emitted = <<>>
  /\ lastCall = Call("none", NoTag, FALSE, <<>>)
  /\ chunked = [called |-> FALSE, shards |-> <<>>, clusters |-> 0, r |-> <<>>]
  /\ grouped = [called |-> FALSE, count |-> 0, M |-> 1, map |-> <<>>]
  /\ central = NoRequests
  /\ ending = NotEnding
  /\ opsLeft = ops
  /\ crashesLeft = crashes

Init ==
  \E n \in 1..MaxClusters, M \in 1..MaxConcurrency, k \in 0..MaxServices :
    Constructed(n, M, k, MaxOps, MaxCrashes) /\ holders = {} /\ cyclesLeft = 0
    /\ listener = "admiral" /\ harness = Booted(FALSE, FALSE, 0)

Next ==
  \/ LaunchAsync
  \/ \E w \in Workers : Launched(w)
  \/ \E w \in Workers : Connected(w)
  \/ \E w \in Workers : CodeLoaded(w)
  \/ \E w \in Workers : ShutdownAck(w)
  \/ \E w \in Workers : KillTimer(w)
  \/ ExecTimer
  \/ \E w \in Workers : Crash(w)
  \/ \E w \in Workers : ExitKilled(w)
  \/ \E c \in CIDs, hard \in BOOLEAN : RestartCluster(c, hard)
  \/ \E v \in SIDs, hard \in BOOLEAN : RestartService(v, hard)
  \/ \E c \in CIDs, hard \in BOOLEAN : ShutdownCluster(c, hard)
  \/ \E v \in SIDs, hard \in BOOLEAN : ShutdownService(v, hard)
  \/ \E n \in 1..MaxClusters : Reshard(n)

Spec == Init /\ [][Next]_vars

\* The launch alone: no API call, no crash.
InitLaunch ==
  \E M \in 1..MaxConcurrency :
    Constructed(LaunchClusters, M, 0, 0, 0) /\ holders = {} /\ cyclesLeft = 0
    /\ listener = "admiral" /\ harness = Booted(FALSE, FALSE, 0)

NextLaunch ==
  \/ LaunchAsync
  \/ \E w \in Workers : Launched(w)
  \/ \E w \in Workers : Connected(w)
  \/ \E w \in Workers : CodeLoaded(w)
  \/ ExecTimer

SpecLaunch == InitLaunch /\ [][NextLaunch]_vars

\* One cluster and no service, the public API called more than once, no
\* process exiting by itself.
InitRepeat ==
  Constructed(1, 1, 0, MaxOps + 1, 0) /\ holders = {} /\ cyclesLeft = 0
    /\ listener = "admiral" /\ harness = Booted(FALSE, FALSE, 0)

NextRepeat ==
  \/ LaunchAsync
  \/ \E w \in Workers : Launched(w)
  \/ \E w \in Workers : Connected(w)
  \/ \E w \in Workers : CodeLoaded(w)
  \/ \E w \in Workers : ShutdownAck(w)
  \/ \E w \in Workers : KillTimer(w)
  \/ ExecTimer
  \/ \E w \in Workers : ExitKilled(w)
  \/ \E c \in CIDs, hard \in BOOLEAN : RestartCluster(c, hard)
  \/ \E c \in CIDs, hard \in BOOLEAN : ShutdownCluster(c, hard)
  \/ \E n \in 1..MaxClusters : Reshard(n)

SpecRepeat == InitRepeat /\ [][NextRepeat]_vars

\* The launch of one or two clusters with fetches going on; each cluster
\* holds the value or does not.
InitFetch ==
  \E n \in 1..MaxClusters, M \in 1..MaxConcurrency :
    /\ Constructed(n, M, 0, 0, 0)
    /\ holders \in SUBSET (0..(n - 1))
    /\ cyclesLeft = 0
    /\ listener = "admiral" /\ harness = Booted(FALSE, FALSE, 0)

NextFetch ==
  \/ LaunchAsync
  \/ \E w \in Workers : Launched(w)
  \/ \E w \in Workers : Connected(w)
  \/ \E w \in Workers : CodeLoaded(w)
  \/ ExecTimer
  \/ \E k \in Workers : FetchRequest(k)
  \/ \E w \in Workers, k \in Workers : FetchAnswer(w, k)
  \/ \E k \in Workers : FetchTimeout(k)

SpecFetch == InitFetch /\ [][NextFetch]_vars

\* The launch of one or two clusters in which a worker repeats a fetch that was
\* answered before its timeout.
InitRefetch ==
  \E n \in 1..MaxClusters :
    /\ Constructed(n, 1, 0, 0, 0)
    /\ holders \in SUBSET (0..(n - 1))
    /\ cyclesLeft = 0
    /\ listener = "admiral" /\ harness = Booted(FALSE, FALSE, 0)

NextRefetch ==
  \/ LaunchAsync
  \/ \E w \in Workers : Launched(w)
  \/ \E w \in Workers : Connected(w)
  \/ \E w \in Workers : CodeLoaded(w)
  \/ ExecTimer
  \/ \E k \in Workers : FetchRequest(k)
  \/ \E k \in Workers : FetchAgain(k)
  \/ \E w \in Workers, k \in Workers : FetchAnswer(w, k)
  \/ \E k \in Workers : FetchTimeout(k)

SpecRefetch == InitRefetch /\ [][NextRefetch]_vars

\* A launch with fetches going on in which one worker process exits by itself;
\* no cluster holds the value.
InitFetchExit ==
  \E n \in 1..MaxClusters :
    /\ Constructed(n, 1, 0, 0, 1)
    /\ holders = {}
    /\ cyclesLeft = 0
    /\ listener = "admiral" /\ harness = Booted(FALSE, FALSE, 0)

NextFetchExit ==
  \/ LaunchAsync
  \/ \E w \in Workers : Launched(w)
  \/ \E w \in Workers : Connected(w)
  \/ \E w \in Workers : CodeLoaded(w)
  \/ ExecTimer
  \/ \E k \in Workers : FetchRequest(k)
  \/ \E w \in Workers, k \in Workers : FetchAnswer(w, k)
  \/ \E k \in Workers : FetchTimeout(k)
  \/ \E w \in Workers : Crash(w)

SpecFetchExit == InitFetchExit /\ [][NextFetchExit]_vars

\* Launch and stats collection, with clusters and services shut down while
\* statistics are collected.
InitStats ==
  \E n \in 1..MaxClusters, k \in 0..MaxServices :
    /\ Constructed(n, 1, k, MaxOps, 0)
    /\ holders = {}
    /\ cyclesLeft = MaxCycles
    /\ listener = "admiral" /\ harness = Booted(FALSE, FALSE, 0)

NextStats ==
  \/ LaunchAsync
  \/ \E w \in Workers : Launched(w)
  \/ \E w \in Workers : Connected(w)
  \/ \E w \in Workers : CodeLoaded(w)
  \/ \E w \in Workers : ShutdownAck(w)
  \/ \E w \in Workers : KillTimer(w)
  \/ ExecTimer
  \/ \E w \in Workers : ExitKilled(w)
  \/ \E c \in CIDs, hard \in BOOLEAN : ShutdownCluster(c, hard)
  \/ \E v \in SIDs, hard \in BOOLEAN : ShutdownService(v, hard)
  \/ CollectStats
  \/ \E w \in Workers : StatsReply(w)

SpecStats == InitStats /\ [][NextStats]_vars

\* A Queue after its constructor, with a subscriber that records the signals.
InitQueue ==
  /\ Constructed(1, 1, 0, 0, 0)
  /\ holders = {} /\ cyclesLeft = 0
  /\ listener = "recorder" /\ harness = Booted(FALSE, FALSE, 0)

NextQueue ==
  \/ \E it \in Items, tag \in Tags : QueueItem(it, tag)
  \/ \E items \in Bulks, tag \in Tags : QueueBulk(items, tag)
  \/ \E first \in BOOLEAN, tag \in Tags : QueueExecute(first, tag)
  \/ \E tag \in Tags : QueueOverride(tag)

SpecQueue == InitQueue /\ [][NextQueue]_vars

\* chunk applied to every list and cluster count within the bounds.
NextChunk ==
  \/ \E first \in 0..MaxFirst, len \in 0..MaxLen, n \in 0..MaxChunks :
       Chunk(first, len, n)
  \/ \E count \in 0..MaxCount, M \in 1..MaxGroupSize : Groups(count, M)

InitChunk ==
  /\ Constructed(1, 1, 0, 0, 0)
  /\ holders = {} /\ cyclesLeft = 0
  /\ listener = "admiral" /\ harness = Booted(FALSE, FALSE, 0)

SpecChunk == InitChunk /\ [][NextChunk]_vars

\* reshard(options) called while an earlier reshard may still be under way
ReshardCall(n) ==
  /\ opsLeft > 0 /\ Len(reshards) <= MaxReshards
  /\ SetVars(HandleReshard([St EXCEPT !.opsLeft = @ - 1], n))

\* One cluster and no service, reshard() called up to twice, no process
\* exiting by itself.
NextReshard ==
  \/ LaunchAsync
  \/ \E w \in Workers : Launched(w)
  \/ \E w \in Workers : Connected(w)
  \/ \E w \in Workers : CodeLoaded(w)
  \/ \E w \in Workers : ShutdownAck(w)
  \/ \E w \in Workers : KillTimer(w)
  \/ ExecTimer
  \/ \E w \in Workers : ExitKilled(w)
  \/ \E n \in 1..MaxClusters : ReshardCall(n)

SpecReshard == InitRepeat /\ [][NextReshard]_vars

\* One worker's CentralRequestHandler and the master's replies to it.
InitCentral ==
  /\ Constructed(1, 1, 0, 0, 0)
  /\ holders = {} /\ cyclesLeft = 0
  /\ listener = "admiral" /\ harness = Booted(FALSE, FALSE, 0)

NextCentral ==
  \/ CentralRequest
  \/ \E u \in UUIDs, resolved \in BOOLEAN, value \in ApiValues :
       CentralReply(u, resolved, value)
  \/ \E u \in UUIDs, resolved \in BOOLEAN, value \in ApiValues :
       CentralResponse([id |-> u, resolved |-> resolved,
                        valueSerialized |-> stringifyJSON(value)])
  \/ \E u \in UUIDs : CentralTimeout(u)

SpecCentral == InitCentral /\ [][NextCentral]_vars

\* One service process from its fork on: its module is given by a path or as
\* a class, has a shutdown hook or none, and serviceTimeout is 0 or not.
InitHarness ==
  /\ Constructed(1, 1, 0, 0, 0)
  /\ holders = {} /\ cyclesLeft = 0
  /\ listener = "admiral"
  /\ \E path \in BOOLEAN, hook \in BOOLEAN, timeout \in 0..1 :
       harness = Booted(path, hook, timeout)

NextHarness ==
  \/ \E ok \in BOOLEAN : HarnessConnect(ok)
  \/ \E ok \in BOOLEAN : HarnessImported(ok)
  \/ HarnessReady
  \/ HarnessStartingError
  \/ HarnessTimeout
  \/ HarnessShutdown
  \/ HarnessHookDone

SpecHarness == InitHarness /\ [][NextHarness]_vars

\* A launch, and totalShutdown called once at any moment of it or after it;
\* no other API call and no process exiting by itself.
InitTotal ==
  \E n \in 1..MaxClusters, k \in 0..MaxServices :
    Constructed(n, 1, k, 1, 0) /\ holders = {} /\ cyclesLeft = 0
    /\ listener = "admiral" /\ harness = Booted(FALSE, FALSE, 0)

NextTotal ==
  \/ LaunchAsync
  \/ \E w \in Workers : Launched(w)
  \/ \E w \in Workers : Connected(w)
  \/ \E w \in Workers : CodeLoaded(w)
  \/ \E w \in Workers : ShutdownAck(w)
  \/ \E w \in Workers : KillTimer(w)
  \/ ExecTimer
  \/ \E w \in Workers : ExitKilled(w)
  \/ \E hard \in BOOLEAN : TotalShutdown(hard)

SpecTotal == InitTotal /\ [][NextTotal]_vars

\* ================================================================= claims
\* The clusters that were sent "connect" and have not reported "connected".
InFlight ==
  {w \in workers : wtype[w] = "cluster" /\ connectSent[w] > 0
                   /\ wphase[w] \in {"boot", "idle"}}

\* C1: during a launch with max_concurrency M, the clusters that were sent
\* "connect" and have not yet reported "connected" are never more than M.
C1_ConnectsInFlight == Cardinality(InFlight) <= maxConcurrency
\* Membership of a workerID in the three collections.
InClusterRegistry(w) == \E c \in CIDs : clusters[c] # 0 /\ objWorker[clusters[c]] = w
InServiceRegistry(w) == \E v \in SIDs : services[v] # 0 /\ objWorker[services[v]] = w
InLaunching(w) == InSeq(launchingWorkers, w)

\* The record naming w is the record of w's own identity, it was made for an
\* earlier worker and handed over to w, and w has not reported "connected".
IsReplacement(w) ==
  /\ wphase[w] \in {"boot", "idle"}
  /\ \/ wtype[w] = "cluster" /\ clusters[wident[w]] # 0
        /\ objWorker[clusters[wident[w]]] = w /\ clusters[wident[w]] # w
     \/ wtype[w] = "service" /\ services[wident[w]] # 0
        /\ objWorker[services[wident[w]]] = w /\ services[wident[w]] # w

\* C2 as stated: each workerID is in at most one of the cluster registry, the
\* service registry and launchingWorkers.
C2_AtMostOneCollection ==
  \A w \in Workers :
    /\ ~(InClusterRegistry(w) /\ InServiceRegistry(w))
    /\ ~(InLaunching(w) /\ (InClusterRegistry(w) \/ InServiceRegistry(w)))

\* C2, amended: no workerID is named by both registries, and a workerID that
\* is in launchingWorkers and named by a registry record is the replacement
\* of a hard or unplanned-exit restart that has not yet reported "connected".
C2_OverlapOnlyForReplacement ==
  \A w \in Workers :
    /\ ~(InClusterRegistry(w) /\ InServiceRegistry(w))
    /\ InLaunching(w) /\ (InClusterRegistry(w) \/ InServiceRegistry(w))
         => IsReplacement(w)

\* a replacement worker that is launching and named by the registry record
C2_Witness ==
  \E w \in Workers : InLaunching(w) /\ InClusterRegistry(w) /\ IsReplacement(w)
\* C3: a soft-killed worker whose shutdown acknowledgment was processed is
\* never force-terminated by a kill-timer: a timer firing later performs no
\* kill (and so runs no 'failed' continuation, which only follows the kill).
C3_NoTimerKillAfterAck ==
  [][\A w \in Workers : acked[w] > 0 => timerKills'[w] = timerKills[w]]_vars

\* C4: when the kill-timer of a soft-killed worker (cluster or service) that
\* has not acknowledged fires, the worker is killed exactly once and its
\* continuation runs.
C4_TimerKillsOnce ==
  [][\A w \in Workers :
       (timerKills'[w] = timerKills[w] + 1 /\ acked[w] = 0
          /\ softKills[w].kind = "shut")
       => /\ kills'[w] = kills[w] + 1
          /\ softKillDone'[w] = softKillDone[w] + 1]_vars

\* C5: a soft-kill entry is removed once, by the first of acknowledgment,
\* kill-timer and exit; an acknowledgment that arrives from a worker whose
\* entry is already gone finds no entry and changes nothing.
C5_LateAckChangesNothing ==
  [][\A w \in Workers :
       (w \in workers /\ shutdownsPending'[w] < shutdownsPending[w]
          /\ softKills[w].kind = "none")
       => /\ softKills' = softKills
          /\ queue' = queue
          /\ kills' = kills
          /\ softKillDone' = softKillDone]_vars

\* the exit of worker w with no soft-kill pending for it
UnplannedExit(w) ==
  w \in workers /\ w \notin workers' /\ softKills[w].kind = "none"

\* the codeLoaded report of worker w
ReportsCodeLoaded(w) == wphase[w] = "connected" /\ wphase'[w] = "loaded"

NamedByCluster(c, w) == clusters[c] # 0 /\ objWorker[clusters[c]] = w
NamedByService(v, w) == services[v] # 0 /\ objWorker[services[v]] = w

AtLimit(w) ==
  /\ maxRestarts # -1
  /\ \/ \E c \in CIDs : NamedByCluster(c, w)
                        /\ clustersSequentialFailedRestarts[c] >= maxRestarts
     \/ /\ ~InClusterRegistry(w)
        /\ \E v \in SIDs : NamedByService(v, w)
                           /\ servicesSequentialFailedRestarts[v] >= maxRestarts

\* C7: once the counter of an identity has reached maxRestarts (not -1), the
\* next unplanned exit of the identity's worker forks no process and puts no
\* item on the queue.
C7_NoRestartAtLimit ==
  [][\A w \in Workers :
       UnplannedExit(w) /\ AtLimit(w)
       => /\ nextId' = nextId
          /\ \A i \in 1..Len(queue') : \E j \in 1..Len(queue) : queue'[i] = queue[j]]_vars

\* a worker that exited by itself at the limit: nothing was forked after it
C7_Witness ==
  \E w \in Workers :
    /\ w \notin workers /\ wphase[w] # "none" /\ kills[w] = 0
    /\ InClusterRegistry(w) /\ nextId = w + 1 /\ crashesLeft = MaxCrashes - 2

\* C8: when the restart is skipped at the limit, the identity is dropped from
\* the registry: no record keeps naming the exited worker.
C8_DroppedAtLimit ==
  [][\A w \in Workers :
       UnplannedExit(w) /\ AtLimit(w)
       => /\ \A c \in CIDs : NamedByCluster(c, w) => clusters'[c] = 0
          /\ \A v \in SIDs : NamedByService(v, w) => services'[v] = 0]_vars

\* No timer is pending and no process has a message to answer or an exit to
\* report: nothing more happens unless the API is called or a process crashes.
Quiescent ==
  /\ launchPending = 0 /\ execTimers = 0
  /\ \A w \in Workers : killTimers[w] = 0
  /\ \A w \in workers :
       /\ kills[w] = 0 /\ shutdownsPending[w] = 0 /\ wphase[w] # "boot"
       /\ ~(wphase[w] = "idle" /\ connectSent[w] > 0)
       /\ ~(wphase[w] = "connected" /\ (wtype[w] = "service" \/ loadCodeSent[w] > 0))

\* reshard() was called once, on a steady fleet, and nothing else disturbed
\* the fleet: no other API call, no crash
ReshardAlone ==
  /\ Len(reshards) = 1 /\ reshards[1].steady
  /\ opsLeft = MaxOps - 1 /\ crashesLeft = MaxCrashes

\* C9: after reshard(), every cluster worker registered at the call is
\* eventually soft-killed, exactly once: when nothing more can happen, the
\* shutdown continuation of each has run once.
C9_OldWorkersSoftKilled ==
  (ReshardAlone /\ Quiescent) => \A w \in reshards[1].ws : softKillDone[w] = 1

\* C10: after reshard(), every cluster of the new fleet eventually receives
\* loadCode: when nothing more can happen, each has been sent it.
C10_NewFleetLoadsCode ==
  (ReshardAlone /\ Quiescent)
    => \A w \in Workers :
         (w >= reshards[1].first /\ wtype[w] = "cluster") => loadCodeSent[w] >= 1

\* C11: after reshard(), reshardingComplete is emitted exactly once: when
\* nothing more can happen, the event has been emitted one time.
C11_CompleteEmittedOnce ==
  (ReshardAlone /\ Quiescent) => completeEmitted = 1

\* a reshard is under way: reshard() was called once, on a steady fleet, and
\* its reshardingComplete event has not been emitted
ReshardInProgress ==
  Len(reshards) = 1 /\ reshards[1].steady /\ completeEmitted = 0

\* C12: while a reshard is in progress, from the call until its
\* reshardingComplete event, a further reshard() call is rejected: it records
\* no new reshard, changes no clusterCount and starts no launch.
C12_RejectedWhileInProgress ==
  [][(ReshardInProgress /\ opsLeft' < opsLeft)
       => /\ reshards' = reshards
          /\ clusterCount' = clusterCount
          /\ launchPending' = launchPending
          /\ nextId' = nextId]_vars

\* C13: when no cluster holds the value, once the timeout of a fetch has
\* passed the requester has received "no value" (null) exactly once for the
\* request and nothing else, the FetchEntry of the key is gone, and replies
\* handled later have forwarded nothing to the requester.
C13_NullOnceAfterTimeout ==
  holders = {} =>
    \A k \in Workers :
      (requests[k] > 0 /\ fetchTimers[k] = 0)
      => /\ fetches[k] = Undef
         /\ Len(returned[k]) = requests[k]
         /\ \A i \in 1..Len(returned[k]) : returned[k][i] = "null"

\* no cluster holds the value, the timeout has passed, the requester has its
\* one null, and a reply was handled after the FetchEntry was gone
C13_Witness ==
  /\ holders = {}
  /\ \E k \in Workers :
       /\ requests[k] = 1 /\ fetchTimers[k] = 0 /\ late[k] > 0
       /\ returned[k] = <<"null">>

\* C14: the first cluster that answers a fetch with a value wins: once the
\* requester has been sent that value, no later answer of another cluster
\* sends it a second result for the request.
C14_FirstValueWins ==
  \A k \in Workers :
    (returned[k] # <<>> /\ returned[k][1] = "value")
    => Len(returned[k]) <= requests[k]

\* C15: a stats cycle finalizes (publishes the snapshot and emits "stats")
\* only when exactly C+S replies of the cycle have been received, C and S
\* being the registered clusters and services.
C15_FinalizesAfterAllReplies ==
  \A i \in 1..Len(published) : published[i].replies = published[i].size

\* C16: in every published snapshot totalRam is the sum of the RAM reported
\* by the workers counted in the cycle plus masterRam.
C16_TotalRamIsSum ==
  \A i \in 1..Len(published) :
    published[i].stats.totalRam
      = SumRam(published[i].stats.reports) + published[i].stats.masterRam

\* the call of this step is not stopped by the override tag
PassesGate == override = NoTag \/ lastCall'.tag = override

\* the signal for item, with prevItem undefined
FirstSignal(it) == <<[item |-> it, prevItem |-> NoItem]>>

\* C17: item and bulkItems on an empty Queue emit the "execute" signal for
\* the first added item before they return; on a non-empty Queue they only
\* append to the tail and emit nothing (calls that pass the override tag).
C17_EnqueueOnEmptyExecutes ==
  [][(lastCall'.op \in {"item", "bulkItems"} /\ PassesGate)
       => /\ queue' = queue \o lastCall'.items
          /\ emitted' = IF queue = <<>> /\ lastCall'.items # <<>>
                        THEN FirstSignal(lastCall'.items[1]) ELSE <<>>]_vars

\* item was called on an empty Queue and the signal for its item was emitted
C17_Witness ==
  /\ lastCall.op = "item" /\ queue = lastCall.items
  /\ emitted = FirstSignal(lastCall.items[1])

\* C18: with the override tag set, an item, bulkItems or execute call whose
\* tag is different or missing is dropped: the queue is unchanged and no
\* signal is emitted.
C18_OverrideDrops ==
  [][(override # NoTag /\ lastCall'.op \in {"item", "bulkItems", "execute"}
        /\ lastCall'.tag # override)
       => queue' = queue /\ emitted' = <<>>]_vars

\* with the override tag set, a bulkItems call with another tag was dropped
C18_Witness ==
  /\ override = "shutdownWorker" /\ lastCall.op = "bulkItems"
  /\ lastCall.tag # override /\ lastCall.items # <<>> /\ queue # <<>>

\* C19: execute with first false removes exactly the head; with a new head
\* it emits one signal carrying (new head, removed head), without one it
\* emits nothing; on an empty queue it changes nothing.
C19_AdvanceRemovesHead ==
  [][(lastCall'.op = "execute" /\ ~lastCall'.first /\ PassesGate)
       => /\ queue' = IF queue = <<>> THEN <<>> ELSE Tail(queue)
          /\ emitted' = IF Len(queue) >= 2
                        THEN <<[item |-> queue[2], prevItem |-> queue[1]]>>
                        ELSE <<>>]_vars

\* execute(false) removed a head and emitted the signal for the new head
C19_Witness ==
  /\ lastCall.op = "execute" /\ ~lastCall.first
  /\ Len(emitted) = 1 /\ queue # <<>> /\ emitted[1].item = queue[1]
  /\ emitted[1].prevItem # NoItem

\* C20 as stated: chunk returns exactly `clusters` groups when clusters >= 2
\* and one group holding all ids when clusters < 2.
C20_ExactlyClustersGroups ==
  chunked.called =>
    IF chunked.clusters >= 2 THEN Len(chunked.r) = chunked.clusters
    ELSE chunked.r = <<chunked.shards>>

\* C20, amended: with clusters >= 2 chunk returns `clusters` groups when the
\* list has at least that many ids and one group per id when it has fewer
\* (none for the empty list); with clusters < 2, one group holding all ids.
C20_GroupsUpToLength ==
  chunked.called =>
    IF chunked.clusters >= 2
    THEN Len(chunked.r) = IF Len(chunked.shards) >= chunked.clusters
                          THEN chunked.clusters ELSE Len(chunked.shards)
    ELSE chunked.r = <<chunked.shards>>

\* chunk was handed fewer ids than clusters
C20_Witness ==
  /\ chunked.called /\ chunked.clusters >= 2
  /\ Len(chunked.shards) > 0 /\ Len(chunked.shards) < chunked.clusters
  /\ Len(chunked.r) = Len(chunked.shards)

RECURSIVE Flatten(_)
Flatten(groups) ==
  IF groups = <<>> THEN <<>> ELSE Head(groups) \o Flatten(Tail(groups))

GroupsHolding(id) ==
  {k \in DOMAIN chunked.r : \E j \in DOMAIN chunked.r[k] : chunked.r[k][j] = id}

\* C21: the groups chunk returns, concatenated in order, are the input id
\* list, and every id of the input is in exactly one group.
C21_GroupsPartitionInput ==
  chunked.called =>
    /\ Flatten(chunked.r) = chunked.shards
    /\ \A j \in DOMAIN chunked.shards :
         Cardinality(GroupsHolding(chunked.shards[j])) = 1

\* chunk split a list into several groups, by the even and by the uneven loop
C21_Witness ==
  /\ chunked.called /\ chunked.clusters = 2 /\ Len(chunked.shards) = 4
  /\ Len(chunked.r) = 2 /\ Flatten(chunked.r) = chunked.shards

\* C22: the sizes of the groups chunk returns differ by at most one and an
\* earlier group is never smaller than a later one; chunk([0..9], 3) is
\* [[0,1,2,3],[4,5,6],[7,8,9]].
C22_SizesBalancedDescending ==
  chunked.called =>
    /\ \A i, j \in DOMAIN chunked.r :
         i < j => /\ Len(chunked.r[i]) >= Len(chunked.r[j])
                  /\ Len(chunked.r[i]) - Len(chunked.r[j]) <= 1
    /\ (chunked.shards = <<0, 1, 2, 3, 4, 5, 6, 7, 8, 9>> /\ chunked.clusters = 3)
         => chunked.r = << <<0, 1, 2, 3>>, <<4, 5, 6>>, <<7, 8, 9>> >>

\* chunk([0..9], 3) was called and returned groups of 4, 3 and 3 ids
C22_Witness ==
  /\ chunked.called /\ chunked.clusters = 3
  /\ chunked.shards = <<0, 1, 2, 3, 4, 5, 6, 7, 8, 9>>
  /\ Len(chunked.r) = 3 /\ Len(chunked.r[1]) = 4 /\ Len(chunked.r[3]) = 3

\* C23: chunkConcurrencyGroups maps every clusterID below clusterCount, and
\* no other key, to clusterID div maxConcurrency; with maxConcurrency 2 the
\* clusters 0..4 are in groups 0, 0, 1, 1, 2.
C23_GroupIsQuotient ==
  grouped.called =>
    /\ DOMAIN grouped.map = 0..(grouped.count - 1)
    /\ \A i \in 0..(grouped.count - 1) : grouped.map[i] = i \div grouped.M
    /\ (grouped.count = 5 /\ grouped.M = 2)
         => grouped.map = (0 :> 0) @@ (1 :> 0) @@ (2 :> 1) @@ (3 :> 1) @@ (4 :> 2)

\* the map was built for five clusters with maxConcurrency 2
C23_Witness ==
  /\ grouped.called /\ grouped.count = 5 /\ grouped.M = 2
  /\ grouped.map[2] = 1 /\ grouped.map[4] = 2

\* The clusterIDs the cluster registry holds.
RegisteredClusterIDs == {c \in CIDs : clusters[c] # 0}

\* Every cluster of the current cluster count is registered with a running
\* process that has loaded its code.
AllClustersLive ==
  \A c \in 0..(clusterCount - 1) :
    /\ c \in CIDs /\ clusters[c] # 0
    /\ objWorker[clusters[c]] \in workers
    /\ wphase[objWorker[clusters[c]]] = "loaded"

\* The launch, or one reshard called on a steady fleet, has run to its end
\* and nothing else disturbed the fleet.
LaunchOrReshardDone ==
  /\ crashesLeft = MaxCrashes /\ launchPending = 0 /\ queue = <<>>
  /\ \/ reshards = <<>> /\ opsLeft = MaxOps
     \/ ReshardAlone /\ completeEmitted = 1

\* C24: once all clusters of a launch or of a completed reshard are live,
\* the clusterIDs in the cluster registry are exactly 0..clusterCount-1.
C24_RegistryIsClusterRange ==
  (LaunchOrReshardDone /\ AllClustersLive)
    => RegisteredClusterIDs = 0..(clusterCount - 1)

\* The concurrency group of a cluster worker.
GroupOf(w) == wident[w] \div maxConcurrency

\* C29: during a launch, no cluster of a later concurrency group has been
\* sent "connect" while a cluster of an earlier group has not reported
\* "connected".
C29_NextGroupWaits ==
  \A w, x \in workers :
    (/\ wtype[w] = "cluster" /\ wtype[x] = "cluster"
     /\ GroupOf(x) > GroupOf(w) /\ connectSent[x] > 0)
      => wphase[w] \in {"connected", "loaded"}

\* Worker w, sent "connect" and not yet ready (its code not loaded), exits by
\* itself: it was not killed and no soft-kill is pending for it.
SelfExitBeforeReady(w) ==
  /\ UnplannedExit(w) /\ kills[w] = 0
  /\ connectSent[w] > 0 /\ wphase[w] \in {"idle", "connected"}

\* The exit handler applied the restart policy to w's identity: it forked a
\* replacement, or it changed the failure counter of the identity.
PolicyApplied(w) ==
  \/ nextId' = nextId + 1
  \/ /\ wtype[w] = "cluster"
     /\ clustersSequentialFailedRestarts'[wident[w]]
          # clustersSequentialFailedRestarts[wident[w]]
  \/ /\ wtype[w] = "service"
     /\ servicesSequentialFailedRestarts'[wident[w]]
          # servicesSequentialFailedRestarts[wident[w]]

\* C30: when a worker terminates itself before it is ready, including before
\* it reported "connected", the restart policy is applied to its identity: a
\* replacement is forked or the exit is counted against the restart limit.
C30_EarlyExitRestarted ==
  [][\A w \in Workers : SelfExitBeforeReady(w) => PolicyApplied(w)]_vars

\* The centralApiResponse messages for request u delivered in this step.
DeliveredFor(u) == {m \in central.inflight \ central'.inflight : m.id = u}

\* C25: the promise of every request is settled exactly once, by its
\* centralApiResponse or by its timeout, whichever comes first: a response
\* that finds the request pending settles it and removes the entry and the
\* timer, a timeout settles it and removes the entry, the entry is in the map
\* exactly while the request is unsettled, and a response that arrives after
\* the request was settled changes nothing.
C25_SettledOnceByFirst ==
  [][\A u \in UUIDs :
       /\ Len(central'.outcomes[u]) <= 1
       /\ u \in central'.requests
            <=> (u \in central'.issued /\ central'.outcomes[u] = <<>>)
       /\ \A m \in DeliveredFor(u) :
            IF u \in central.requests
            THEN /\ central'.outcomes[u]
                      = <<IF m.resolved THEN "resolve" ELSE "reject">>
                 /\ u \notin central'.timers
            ELSE /\ central'.outcomes = central.outcomes
                 /\ central'.requests = central.requests
       /\ (u \in central.timers /\ u \notin central'.timers /\ DeliveredFor(u) = {})
            => central'.outcomes[u] = <<"timeout">>]_vars

IsSent(op) == \E i \in DOMAIN harness.sent : harness.sent[i] = op

\* C26: the harness sends "connected", followed at once by "codeLoaded",
\* only after the module has reported that it is ready; when instantiation
\* fails, readiness is rejected or the startup timer fires first, the process
\* has exited and never sent "connected"; with a timeout of zero there is no
\* startup timer, so the process never exits by it.
C26_ConnectedOnlyWhenReady ==
  /\ IsSent("connected") => harness.ready = "resolved"
  /\ \A i \in DOMAIN harness.sent :
       harness.sent[i] = "connected"
         => i < Len(harness.sent) /\ harness.sent[i + 1] = "codeLoaded"
  /\ harness.last \in {"instantiation failed", "rejected", "timeout"}
       => ~harness.alive /\ ~IsSent("connected")
  /\ harness.timeout = 0 => ~harness.timer /\ harness.last # "timeout"

\* a module that was instantiated under a running startup timer reported
\* that it is ready, and the harness sent connected and codeLoaded
C26_Witness ==
  /\ harness.timeout # 0 /\ harness.ready = "resolved" /\ ~harness.timer
  /\ harness.alive /\ IsSent("connected") /\ IsSent("codeLoaded")

Acks(h) == Cardinality({i \in DOMAIN h.sent : h.sent[i] = "shutdown"})

\* C27: on "shutdown" a harness whose module has a shutdown hook sends no
\* acknowledgment in the handler; it sends one each time the hook's callback
\* is invoked. A harness with no module, or with a module that has no hook,
\* sends the acknowledgment in the handler.
C27_AckAfterHook ==
  [][/\ harness'.shutdownsLeft < harness.shutdownsLeft
        => Acks(harness') = Acks(harness)
                            + IF harness.app /\ harness.hook THEN 0 ELSE 1
     /\ Acks(harness') > Acks(harness)
        => \/ harness'.hooks = harness.hooks - 1
           \/ /\ harness'.shutdownsLeft < harness.shutdownsLeft
              /\ ~(harness.app /\ harness.hook)]_vars

\* a module with a hook was asked to shut down, its callback was invoked and
\* the acknowledgment was sent
C27_Witness ==
  /\ harness.app /\ harness.hook /\ harness.last = "done"
  /\ harness.hooks = 0 /\ Acks(harness) = 1

\* C28: a soft totalShutdown eventually soft-kills every registered cluster,
\* every registered service and every launching worker and then ends the
\* orchestrator process: when nothing more can happen, the continuation of
\* each of them has run and the process has exited. A hard totalShutdown
\* ends the process in the call.
C28_TotalShutdownExits ==
  /\ (ending.called /\ ending.hard) => ending.exited
  /\ (ending.called /\ ~ending.hard /\ (Quiescent \/ ending.exited))
       => /\ ending.exited
          /\ \A w \in ending.ws : softKillDone[w] >= 1

\* Worker w is sent "shutdown" in this step.
SentShutdown(w) == shutdownsPending'[w] > shutdownsPending[w]

\* The cluster workers forked by the reshard's launch.
NewFleet == {w \in Workers : w >= reshards[1].first /\ wtype'[w] = "cluster"}

\* After this step the new fleet is ready: no connect item is queued and
\* every clusterID of the new cluster count has a new worker that has
\* reported "connected".
NewFleetReady ==
  /\ \A i \in DOMAIN queue' : queue'[i].op # "connect"
  /\ launchPending' = 0
  /\ \A c \in 0..(clusterCount' - 1) :
       \E w \in NewFleet : wident'[w] = c /\ wphase'[w] \in {"connected", "loaded"}

\* C31: during a reshard, an old cluster worker is sent "shutdown" only when
\* the new fleet is ready: the queue holds no connect item and every worker
\* of the new fleet has reported "connected".
C31_OldKilledAfterReady ==
  [][ReshardAlone =>
       \A w \in reshards[1].ws : SentShutdown(w) => NewFleetReady]_vars

\* Worker w is sent "loadCode" in this step.
SentLoadCode(w) == loadCodeSent'[w] > loadCodeSent[w]

\* After this step old worker o has finished dying: its soft-kill
\* continuation has run, it was killed, or its process is gone.
FinishedDying(o) ==
  softKillDone'[o] >= 1 \/ kills'[o] > 0 \/ o \notin workers'

\* C32: during a reshard, a new worker is sent "loadCode" only when the old
\* worker of the same clusterID, if there is one, has finished dying.
C32_LoadCodeAfterOldDied ==
  [][ReshardAlone =>
       \A w \in NewFleet : SentLoadCode(w) =>
         \A o \in reshards[1].ws : wident[o] = wident'[w] => FinishedDying(o)]_vars

\* Worker n is the replacement forked by a soft restart of old worker o, and
\* o's soft-kill has not completed: either n still holds the restart entry,
\* or o holds the shutdown entry whose callback loads n's code.
SoftRestartPair(o, n) ==
  \/ softKills[n].kind = "restart" /\ softKills[n].other = o
  \/ softKills[o].kind = "shut" /\ softKills[o].cb = "restart"
     /\ softKills[o].other = n

HasConnected(w) == wphase'[w] \in {"connected", "loaded"}

\* C33: in a soft restart the old worker is sent "shutdown" only when the
\* replacement has reported "connected", and the replacement is sent
\* "loadCode" only when the old worker has stopped.
C33_SoftRestartOrder ==
  [][\A o, n \in Workers :
       SoftRestartPair(o, n) =>
         /\ SentShutdown(o) => HasConnected(n)
         /\ SentLoadCode(n) => FinishedDying(o)]_vars
\* the cluster processes that are alive
LiveClusters == {w \in workers : wtype[w] = "cluster" /\ kills[w] = 0}

\* C34: the step that handles the "no value" answer after which every live
\* cluster has answered the fetch with "no value" sends null to the requester
\* and removes the FetchEntry, whether or not the timeout is still pending.
C34_NullAtLastNoValue ==
  [][\A k \in Workers :
       (/\ noValues'[k] # noValues[k] /\ noValues'[k] # {}
        /\ k \in workers'
        /\ LiveClusters' \subseteq noValues'[k])
       => /\ fetches'[k] = Undef
          /\ returned'[k] = Append(returned[k], "null")]_vars
\* a soft totalShutdown was called and the orchestrator has not exited
SoftEnding == ending.called /\ ~ending.hard /\ ~ending.exited

SentConnect(w) == connectSent'[w] > connectSent[w]

\* C35: once a soft totalShutdown has begun and until the orchestrator exits,
\* no step sends "connect" to a worker and the queue holds shutdown items only.
C35_ShutdownOwnsQueue ==
  [][SoftEnding =>
       /\ \A w \in Workers : ~SentConnect(w)
       /\ \A i \in DOMAIN queue' : queue'[i].op = "shutdown"]_vars
\* C36: the queue never stalls. When every live worker has answered or
\* exited and every timer has fired, no item is left in the queue.
C36_QueueDrains == Quiescent => queue = <<>>
\* the shutdown continuation of worker w runs in this step
SoftKillCompletes(w) == softKillDone'[w] > softKillDone[w]

\* the step removes the head of the queue and nothing else; what it adds, it
\* adds at the end
AdvancesByOne ==
  /\ queue # <<>>
  /\ Len(queue') >= Len(queue) - 1
  /\ SubSeq(queue', 1, Len(queue) - 1) = Tail(queue)

\* C37: a step in which one soft-kill completes (by acknowledgment, by
\* kill-timer or by the worker's exit) advances the queue by exactly one
\* position: the items behind the head are all still queued, in their order.
C37_SoftKillAdvancesOnce ==
  [][\A w \in Workers :
       (SoftKillCompletes(w) /\ \A o \in Workers \ {w} : ~SoftKillCompletes(o))
       => AdvancesByOne]_vars
\* the orchestrator handles a "shutdown" acknowledgment of worker w
AckHandled(w) == w \in workers /\ shutdownsPending'[w] < shutdownsPending[w]

\* C38: the step that handles a "shutdown" acknowledgment of worker w runs no
\* soft-kill continuation of another worker, and changes neither the queue
\* nor the soft-kill entries when w has no pending soft-kill.
C38_AckRunsOwnContinuation ==
  [][\A w \in Workers :
       AckHandled(w) =>
         /\ \A o \in Workers \ {w} : ~SoftKillCompletes(o)
         /\ softKills[w].kind = "none" =>
              /\ queue' = queue /\ softKills' = softKills
              /\ kills' = kills]_vars
\* the timeout of worker k's first fetch fires while the timeout of its
\* second fetch of the same id is pending (timeouts of one length fire in the
\* order they were started)
FirstTimerFires(k) == fetchTimers[k] = 2 /\ fetchTimers'[k] = 1

\* C39: the timeout of a fetch that was answered leaves a later fetch of the
\* same id by the same worker alone: when it fires, the later fetch's
\* FetchEntry stays and nothing is sent to the requester.
C39_TimerResolvesOwnFetch ==
  [][\A k \in Workers :
       FirstTimerFires(k) =>
         /\ fetches'[k] = fetches[k]
         /\ returned'[k] = returned[k]]_vars
\* the connect item of worker w is queued behind the head: its turn has not come
ConnectWaits(w, q) == \E i \in 2..Len(q) : q[i].op = "connect" /\ q[i].w = w

\* C40: a worker is sent "connect" at most once, and the step that sends it
\* finds the worker's "launched" report received and does not leave the
\* worker's connect item waiting behind the head of the queue.
C40_ConnectOnceAfterBoth ==
  [][\A w \in Workers :
       SentConnect(w) =>
         /\ connectSent'[w] = 1
         /\ wphase'[w] # "boot"
         /\ ~ConnectWaits(w, queue')]_vars
====
